---- MODULE Spec2Model ----
(***************************************************************************)
(* Stock ledger reconstruction of the invoicing back office.               *)
(*                                                                         *)
(* Two report pages rebuild a product's stock ledger from the product      *)
(* snapshot, the purchase list and the sale list:                          *)
(*   - the daily-summary page, src/pages/ProductStockReportPage.tsx        *)
(*     (rows in stockMovements), with a start/end date filter;             *)
(*   - the per-event page kept in src/components/ui/Dialog.tsx             *)
(*     (rows in movementsWithTotals), without a filter.                    *)
(* One of the two pages is mounted.  Its three queries resolve              *)
(* independently and may be refetched, returning the rows in another order *)
(* (the queries carry no ORDER BY); the ledger is a memoised value         *)
(* recomputed whenever an input changes.                                   *)
(*                                                                         *)
(* Dates are day numbers, day 0 being the last day of the previous month   *)
(* and day FirstOfMonth the first of the current one; an instant is a      *)
(* number of minutes since the start of day 0 (UTC), so that the Date      *)
(* arithmetic of the filter (UTC parse, local setHours, toISOString) is    *)
(* modelled as computed.                                                   *)
(*                                                                         *)
(* Further specifications, each over its own variables with the others at  *)
(* rest: FetchSpec (the queries of a report page may fail), DbSpec (the    *)
(* purchase and invoice mutations against the tables and their triggers),  *)
(* PreviewSpec (handleViewClick of the invoices page), InvoiceSpec (the    *)
(* amounts of the invoice form, template and PDF), PagerSpec (the pager   *)
(* of the ledger table), ListSpec (a list page that pages on the server),  *)
(* ProductSpec (deleteProduct next to the purchase and invoice forms),     *)
(* CsvSpec (CSV export and import), ToastSpec and ToastFairSpec (the       *)
(* Toaster), DbErrorSpec (the invoice mutations with failing requests)     *)
(* and RaceSpec (deleteInvoice next to a second session).                  *)
(***************************************************************************)
EXTENDS Integers, Sequences, FiniteSets, TLC

\* ------------------------------------------------------------------ bounds
MaxDay == 2
MaxQty == 2
MaxStock == 1
MaxEvents == 2
MaxCreated == 2
MaxPurchases == 2
MaxInvoices == 1
MaxItems == 2
MaxDrift == 2
MaxClients == 1
MaxClicks == 3
MaxLines == 2
MaxRows == 45
MaxListPage == 3

\* ------------------------------------------------------ program constants
MinutesPerDay == 1440
FirstOfMonth == 1
NoDate == -1
NoRef == ""
NA == "N/A"

Days == 0..MaxDay
Today == MaxDay - 1
Quantities == 1..MaxQty
CreatedAts == 1..MaxCreated
PurchaseRefs == {NoRef, "A"}
InvoiceNumbers == {"A", "B"}
TzOffsets == {-300, 0, 330}
Queries == {"product", "purchases", "sales"}
Pages == {"daily", "perEvent"}
Products == {"p1", "p2"}
PurchaseIds == 1..MaxPurchases
InvoiceIds == 1..MaxInvoices
Clients == 1..MaxClients

\* The daily page never reads created_at: its rows carry the first value.
CreatedAtsOf(pg) == IF pg = "perEvent" THEN CreatedAts ELSE {1}

\* Rows of the purchases table as fetchAllProductPurchases returns them.
PurchaseRows(pg) ==
    [purchase_date : Days, quantity : Quantities,
     reference_invoice : PurchaseRefs, created_at : CreatedAtsOf(pg)]

\* Rows of invoice_items joined to their invoice, as fetchAllProductSales
\* returns them; invoice_date = NoDate is the row whose s.invoices?.invoice_date
\* is missing.
SaleRows(pg) ==
    [invoice_date : Days \cup {NoDate}, quantity : Quantities,
     invoice_number : InvoiceNumbers, created_at : CreatedAtsOf(pg)]

SeqsUpTo(S, n) == UNION {[1..k -> S] : k \in 0..n}

\* The row orders a refetch of the same rows may return.
Reorderings(s) ==
    {[i \in 1..Len(s) |-> s[f[i]]] : f \in Permutations(1..Len(s))}

VARIABLES
    page,                \* which of the two report pages is mounted
    resolved,            \* the queries that have produced data
    product,             \* product.stock_quantity (0 while unresolved)
    purchases,           \* data of the purchases query (<<>> while unresolved)
    sales,               \* data of the sales query (<<>> while unresolved)
    startDate, endDate,  \* the filter inputs of the daily page, NoDate = ''
    tzOffset,            \* the browser's offset from UTC, in minutes
    stockMovements,      \* the daily-summary ledger
    movementsWithTotals  \* the per-event ledger

reportVars ==
    <<page, resolved, product, purchases, sales, startDate, endDate, tzOffset,
      stockMovements, movementsWithTotals>>

\* The tables of the database and the mutations running against them.
VARIABLES
    dbInitial,           \* products: the stock_quantity each product was created with
    dbStock,             \* products.stock_quantity
    dbPurchases,         \* purchases: id -> row
    dbPurchaseSeq,       \* the last id the purchases table has handed out
    dbInvoices,          \* invoices: the ids of the rows
    dbItems,             \* invoice_items: invoice_id -> rows, in insertion order
    session              \* the mutation each client is running, and where it is

\* The queries of the mounted report page whose fetch has thrown; the error
\* of a query is cleared when a later attempt produces its data.
VARIABLES failed

fetchVars == <<failed>>

\* The invoice preview of the invoices page.
VARIABLES
    selectedInvoice,     \* the invoice held for the preview, NoInvoice = null
    isModalOpen,         \* whether the preview dialog is shown
    issued,              \* how many times handleViewClick has been called
    inFlight,            \* the calls of fetchInvoiceWithItems not yet settled
    arrivals             \* the settled calls, in the order they settled

previewVars == <<selectedInvoice, isModalOpen, issued, inFlight, arrivals>>

NoInvoice == "null"

PreviewAtRest ==
    /\ selectedInvoice = NoInvoice
    /\ isModalOpen = FALSE
    /\ issued = 0
    /\ inFlight = {}
    /\ arrivals = <<>>

\* The invoice form, the saved invoice and its two printed forms.
VARIABLES
    watchedItems,        \* the lines of the invoice form
    totals,              \* the totals memo of the form
    fullInvoice,         \* the invoice as fetched with its items once saved
    template,            \* what InvoiceTemplate has rendered
    pdf                  \* what handleDownloadPDF has drawn

invoiceVars == <<watchedItems, totals, fullInvoice, template, pdf>>

EmptyTotals == [subtotal |-> 0, tax |-> 0, grandTotal |-> 0]

NotSaved == [invoice_items |-> <<>>, total_amount |-> 0]

NotRendered ==
    [rows |-> <<>>, taxableAmount |-> 0, totalCGST |-> 0, totalSGST |-> 0,
     grandTotal |-> 0, cells |-> <<>>]

NotDrawn ==
    [lines |-> <<>>, tableData |-> <<>>, taxableTotal |-> 0, taxTotal |-> 0,
     body |-> <<>>]

InvoiceAtRest ==
    /\ watchedItems = <<>>
    /\ totals = EmptyTotals
    /\ fullInvoice = NotSaved
    /\ template = NotRendered
    /\ pdf = NotDrawn

\* The pager under the ledger table of a report page.
VARIABLES
    ledgerRows,          \* the ledger handed to the pager, a row being its key
    currentPage,         \* the page the pager is on
    paginatedMovements   \* the rows the table shows

pagerVars == <<ledgerRows, currentPage, paginatedMovements>>

PagerAtRest ==
    /\ ledgerRows = <<>>
    /\ currentPage = 1
    /\ paginatedMovements = <<>>

\* A list page that asks the server for one page of a filtered list.
VARIABLES
    matching,            \* the number of rows of the table each filter value matches
    listFilter,          \* the filter value in the query key
    cached,              \* the query keys the query cache holds data for
    fetching,            \* the query keys whose fetch is in flight
    shown,               \* the query key of the data in the table, <<>> for none
    effectPending        \* a render was committed and its effects have yet to run

listVars == <<matching, listFilter, cached, fetching, shown, effectPending>>

ListAtRest ==
    /\ matching = <<>>
    /\ listFilter = ""
    /\ cached = {}
    /\ fetching = {}
    /\ shown = <<>>
    /\ effectPending = FALSE

\* The products table and the rows that reference it, with one deleteProduct.
VARIABLES
    productRows,         \* the ids of the rows of products
    purchaseRefs,        \* per product, the number of purchases rows naming it
    invoiceItemRefs,     \* per product, the number of invoice_items rows naming it
    deleting             \* the running deleteProduct: its step and its productId

productVars == <<productRows, purchaseRefs, invoiceItemRefs, deleting>>

ProductAtRest ==
    /\ productRows = {}
    /\ purchaseRefs = <<>>
    /\ invoiceItemRefs = <<>>
    /\ deleting = <<>>

\* One exported row on its way through the CSV file and back.
VARIABLES
    exportData,          \* the exported row: per header its value, or null
    csvContent,          \* the line written for the row, a sequence of characters
    parsedRows,          \* what parseCSV returns for the line, per header
    csvStep              \* "row", "exported" or "parsed"

csvVars == <<exportData, csvContent, parsedRows, csvStep>>

CsvAtRest ==
    /\ exportData = <<>>
    /\ csvContent = <<>>
    /\ parsedRows = <<>>
    /\ csvStep = ""

\* The Toaster component.
VARIABLES
    mounted,             \* the mount effect has installed toastFunction
    toasts,              \* the toasts state: the displayed messages, in order
    timers,              \* the pending setTimeout callbacks, oldest first
    raised,              \* how many times toast() was called
    clock                \* the seconds gone by

toastVars == <<mounted, toasts, timers, raised, clock>>

ToastAtRest ==
    /\ mounted = FALSE
    /\ toasts = <<>>
    /\ timers = <<>>
    /\ raised = 0
    /\ clock = 0

afterListVars == <<productVars, csvVars, toastVars>>

AfterListAtRest == ProductAtRest /\ CsvAtRest /\ ToastAtRest

laterVars == <<listVars, afterListVars>>

LaterAtRest == ListAtRest /\ AfterListAtRest

dbVars ==
    <<dbInitial, dbStock, dbPurchases, dbPurchaseSeq, dbInvoices, dbItems, session>>

nonReportVars == <<dbVars, fetchVars, previewVars, invoiceVars, pagerVars, laterVars>>

vars == <<reportVars, nonReportVars>>

\* Everything but the database, for the specifications of the database.
OtherThanDbVars ==
    <<reportVars, fetchVars, previewVars, invoiceVars, pagerVars, laterVars>>

\* Everything that comes before the variables above.
earlierVars ==
    <<reportVars, dbVars, fetchVars, previewVars, invoiceVars, pagerVars, listVars>>

\* No mutation is running.
Idle ==
    [op |-> "idle", pc |-> "idle", id |-> 0, items |-> <<>>, i |-> 0,
     stock_quantity |-> 0, restored |-> [p \in Products |-> 0],
     before |-> <<>>]

\* The database while only the report pages are looked at.
DbAtRest ==
    /\ dbInitial = [p \in Products |-> 0]
    /\ dbStock = [p \in Products |-> 0]
    /\ dbPurchases = <<>>
    /\ dbPurchaseSeq = 0
    /\ dbInvoices = {}
    /\ dbItems = [i \in InvoiceIds |-> <<>>]
    /\ session = [c \in Clients |-> Idle]

\* ------------------------------------------------------------------ dates
\* new Date("YYYY-MM-DD"): midnight UTC of that day.
NewDate(d) == d * MinutesPerDay

\* setHours(0, 0, 0, 0): the start of the local day the instant falls in.
SetHoursStart(t, tz) == ((t + tz) \div MinutesPerDay) * MinutesPerDay - tz

\* setHours(23, 59, 59, 999): the last instant of that local day.
SetHoursEnd(t, tz) ==
    ((t + tz) \div MinutesPerDay) * MinutesPerDay + (MinutesPerDay - 1) - tz

\* new Date(year, month, day): midnight of that day in local time.
LocalMidnight(d, tz) == d * MinutesPerDay - tz

\* getFormattedDate: date.toISOString().split('T')[0], the UTC day of the instant.
GetFormattedDate(t) == t \div MinutesPerDay

HasFilter(dateStr) == dateStr # NoDate

FilterStartDate(start, tz) == SetHoursStart(NewDate(start), tz)
FilterEndDate(end, tz) == SetHoursEnd(NewDate(end), tz)

\* ------------------------------------------------------------- reductions
RECURSIVE ReduceQuantity(_, _)
ReduceQuantity(s, acc) ==
    IF s = <<>> THEN acc ELSE ReduceQuantity(Tail(s), acc + Head(s).quantity)

Includes(s, x) == \E i \in 1..Len(s) : s[i] = x

\* Faulty variant: the sales are subtracted together with the purchases.
AbsoluteInitialStockSalesSubtracted(stock, ps, ss) ==
    stock - (ReduceQuantity(ps, 0) + ReduceQuantity(ss, 0))

AbsoluteInitialStock(stock, ps, ss) ==
    stock - (ReduceQuantity(ps, 0) - ReduceQuantity(ss, 0))

\* Faulty variant: a purchase of the first day of the window counts as before it.
PurchaseIsBeforeOrAt(p, start, tz) ==
    NewDate(p.purchase_date) <= FilterStartDate(start, tz)

PurchaseIsBefore(p, start, tz) ==
    NewDate(p.purchase_date) < FilterStartDate(start, tz)

SaleIsBefore(s, start, tz) ==
    /\ s.invoice_date # NoDate
    /\ NewDate(s.invoice_date) < FilterStartDate(start, tz)

PurchasesBefore(ps, start, tz) ==
    ReduceQuantity(SelectSeq(ps, LAMBDA p : PurchaseIsBefore(p, start, tz)), 0)

SalesBefore(ss, start, tz) ==
    ReduceQuantity(SelectSeq(ss, LAMBDA s : SaleIsBefore(s, start, tz)), 0)

OpeningStockForPeriod(stock, ps, ss, start, tz) ==
    IF HasFilter(start)
    THEN AbsoluteInitialStock(stock, ps, ss)
           + (PurchasesBefore(ps, start, tz) - SalesBefore(ss, start, tz))
    ELSE AbsoluteInitialStock(stock, ps, ss)

\* Faulty variant: the lower bound of the window is exclusive.
StartMatchStrict(t, start, tz) ==
    ~HasFilter(start) \/ t > FilterStartDate(start, tz)

StartMatch(t, start, tz) == ~HasFilter(start) \/ t >= FilterStartDate(start, tz)
EndMatch(t, end, tz) == ~HasFilter(end) \/ t <= FilterEndDate(end, tz)

PurchaseInWindow(p, start, end, tz) ==
    /\ StartMatch(NewDate(p.purchase_date), start, tz)
    /\ EndMatch(NewDate(p.purchase_date), end, tz)

SaleInWindow(s, start, end, tz) ==
    /\ s.invoice_date # NoDate
    /\ StartMatch(NewDate(s.invoice_date), start, tz)
    /\ EndMatch(NewDate(s.invoice_date), end, tz)

FilteredPurchases(ps, start, end, tz) ==
    SelectSeq(ps, LAMBDA p : PurchaseInWindow(p, start, end, tz))

FilteredSales(ss, start, end, tz) ==
    SelectSeq(ss, LAMBDA s : SaleInWindow(s, start, end, tz))

\* ---------------------------------------------------------- daily ledger
\* dailyData: a Map in insertion order, kept as its key list and its entries.
EmptyDailyData == [keys |-> <<>>, data |-> <<>>]
EmptyEntry == [purchase |-> 0, sale |-> 0, references |-> <<>>]

GetEntry(dd, dateStr) ==
    IF dateStr \in DOMAIN dd.data THEN dd.data[dateStr] ELSE EmptyEntry

SetEntry(dd, dateStr, entry) ==
    [keys |-> IF Includes(dd.keys, dateStr) THEN dd.keys
              ELSE Append(dd.keys, dateStr),
     data |-> (dateStr :> entry) @@ dd.data]

PushReference(refs, ref) ==
    IF ref # NoRef /\ ~Includes(refs, ref) THEN Append(refs, ref) ELSE refs

\* Faulty variant: a second purchase of a day replaces the first instead of adding.
AddPurchaseOverwrite(dd, p) ==
    LET entry == GetEntry(dd, p.purchase_date)
    IN  SetEntry(dd, p.purchase_date,
                 [purchase |-> p.quantity,
                  sale |-> entry.sale,
                  references |-> PushReference(entry.references,
                                               p.reference_invoice)])

AddPurchase(dd, p) ==
    LET entry == GetEntry(dd, p.purchase_date)
    IN  SetEntry(dd, p.purchase_date,
                 [purchase |-> entry.purchase + p.quantity,
                  sale |-> entry.sale,
                  references |-> PushReference(entry.references,
                                               p.reference_invoice)])

AddSale(dd, s) ==
    IF s.invoice_date = NoDate THEN dd
    ELSE LET entry == GetEntry(dd, s.invoice_date)
         IN  SetEntry(dd, s.invoice_date,
                      [purchase |-> entry.purchase,
                       sale |-> entry.sale + s.quantity,
                       references |-> PushReference(entry.references,
                                                    s.invoice_number)])

RECURSIVE AddPurchases(_, _)
AddPurchases(dd, ps) ==
    IF ps = <<>> THEN dd ELSE AddPurchases(AddPurchase(dd, Head(ps)), Tail(ps))

RECURSIVE AddSales(_, _)
AddSales(dd, ss) ==
    IF ss = <<>> THEN dd ELSE AddSales(AddSale(dd, Head(ss)), Tail(ss))

DailyData(ps, ss, start, end, tz) ==
    AddSales(AddPurchases(EmptyDailyData, FilteredPurchases(ps, start, end, tz)),
             FilteredSales(ss, start, end, tz))

\* Array.prototype.sort is stable: an element goes after the elements that do
\* not compare greater.
RECURSIVE InsertDate(_, _)
InsertDate(sorted, d) ==
    IF sorted = <<>> THEN <<d>>
    ELSE IF NewDate(Head(sorted)) - NewDate(d) <= 0
         THEN <<Head(sorted)>> \o InsertDate(Tail(sorted), d)
         ELSE <<d>> \o sorted

RECURSIVE SortDates(_, _)
SortDates(keys, sorted) ==
    IF keys = <<>> THEN sorted
    ELSE SortDates(Tail(keys), InsertDate(sorted, Head(keys)))

\* Faulty variant: the closing stock is clamped at zero.
DailyRowClamped(date, data, lastClosingStock) ==
    LET openingStock == lastClosingStock
        purchase == data.purchase
        total == openingStock + purchase
        sale == data.sale
        closingStock == IF total - sale < 0 THEN 0 ELSE total - sale
    IN  [date |-> date, invoice |-> data.references,
         openingStock |-> openingStock, purchase |-> purchase,
         total |-> total, sale |-> sale, closingStock |-> closingStock]

DailyRow(date, data, lastClosingStock) ==
    LET openingStock == lastClosingStock
        purchase == data.purchase
        total == openingStock + purchase
        sale == data.sale
        closingStock == total - sale
    IN  [date |-> date, invoice |-> data.references,
         openingStock |-> openingStock, purchase |-> purchase,
         total |-> total, sale |-> sale, closingStock |-> closingStock]

RECURSIVE DailyWalk(_, _, _, _)
DailyWalk(dates, dd, lastClosingStock, movements) ==
    IF dates = <<>> THEN movements
    ELSE LET row == DailyRow(Head(dates), dd.data[Head(dates)], lastClosingStock)
         IN  DailyWalk(Tail(dates), dd, row.closingStock, Append(movements, row))

\* Faulty variant: a ledger without events shows one row carrying the balance.
DailyLedgerBalanceRow(pg, res, stock, ps, ss, start, end, tz) ==
    IF pg # "daily" \/ res # Queries THEN <<>>
    ELSE LET dd == DailyData(ps, ss, start, end, tz)
             opening == OpeningStockForPeriod(stock, ps, ss, start, tz)
         IN  IF dd.keys = <<>>
             THEN <<DailyRow(NoDate, EmptyEntry, opening)>>
             ELSE DailyWalk(SortDates(dd.keys, <<>>), dd, opening, <<>>)

\* Faulty variant: the guard of the memo forgets the product.
DailyLedgerWithoutProduct(pg, res, stock, ps, ss, start, end, tz) ==
    IF pg # "daily" \/ ~({"purchases", "sales"} \subseteq res) THEN <<>>
    ELSE LET dd == DailyData(ps, ss, start, end, tz)
         IN  DailyWalk(SortDates(dd.keys, <<>>), dd,
                       OpeningStockForPeriod(stock, ps, ss, start, tz), <<>>)

\* useMemo of src/pages/ProductStockReportPage.tsx.
DailyLedger(pg, res, stock, ps, ss, start, end, tz) ==
    IF pg # "daily" \/ res # Queries THEN <<>>
    ELSE LET dd == DailyData(ps, ss, start, end, tz)
         IN  DailyWalk(SortDates(dd.keys, <<>>), dd,
                       OpeningStockForPeriod(stock, ps, ss, start, tz), <<>>)

\* ------------------------------------------------------ per-event ledger
PurchaseMovement(p) ==
    [date |-> p.purchase_date, createdAt |-> p.created_at, type |-> "Purchase",
     quantity |-> p.quantity, quantityChange |-> p.quantity,
     reference |-> IF p.reference_invoice # NoRef THEN p.reference_invoice ELSE NA]

SaleMovement(s) ==
    [date |-> s.invoice_date, createdAt |-> s.created_at, type |-> "Sale",
     quantity |-> s.quantity, quantityChange |-> 0 - s.quantity,
     reference |-> s.invoice_number]

PurchaseMovements(ps) == [i \in 1..Len(ps) |-> PurchaseMovement(ps[i])]
SalesMovements(ss) == [i \in 1..Len(ss) |-> SaleMovement(ss[i])]

RECURSIVE InsertMovement(_, _)
InsertMovement(sorted, m) ==
    IF sorted = <<>> THEN <<m>>
    ELSE IF Head(sorted).createdAt - m.createdAt <= 0
         THEN <<Head(sorted)>> \o InsertMovement(Tail(sorted), m)
         ELSE <<m>> \o sorted

RECURSIVE SortMovements(_, _)
SortMovements(ms, sorted) ==
    IF ms = <<>> THEN sorted
    ELSE SortMovements(Tail(ms), InsertMovement(sorted, Head(ms)))

RECURSIVE ReduceChange(_, _)
ReduceChange(ms, acc) ==
    IF ms = <<>> THEN acc ELSE ReduceChange(Tail(ms), acc + Head(ms).quantityChange)

InitialOpeningStock(stock, sortedMovements) ==
    stock - ReduceChange(sortedMovements, 0)

\* Faulty variant: the movement is applied to the opening stock as well.
EventRowChangeTwice(movement, lastClosingStock) ==
    LET openingStock == lastClosingStock + movement.quantityChange
        closingStock == openingStock + movement.quantityChange
    IN  [date |-> movement.date, createdAt |-> movement.createdAt,
         type |-> movement.type, quantity |-> movement.quantity,
         quantityChange |-> movement.quantityChange,
         reference |-> movement.reference,
         openingStock |-> openingStock, closingStock |-> closingStock]

EventRow(movement, lastClosingStock) ==
    LET openingStock == lastClosingStock
        closingStock == openingStock + movement.quantityChange
    IN  [date |-> movement.date, createdAt |-> movement.createdAt,
         type |-> movement.type, quantity |-> movement.quantity,
         quantityChange |-> movement.quantityChange,
         reference |-> movement.reference,
         openingStock |-> openingStock, closingStock |-> closingStock]

RECURSIVE EventWalk(_, _, _)
EventWalk(ms, lastClosingStock, out) ==
    IF ms = <<>> THEN out
    ELSE LET row == EventRow(Head(ms), lastClosingStock)
         IN  EventWalk(Tail(ms), row.closingStock, Append(out, row))

SortedMovements(ps, ss) ==
    SortMovements(PurchaseMovements(ps) \o SalesMovements(ss), <<>>)

\* useMemo of the page kept in src/components/ui/Dialog.tsx.
EventLedger(pg, res, stock, ps, ss) ==
    IF pg # "perEvent" \/ res # Queries THEN <<>>
    ELSE LET sortedMovements == SortedMovements(ps, ss)
         IN  EventWalk(sortedMovements,
                       InitialOpeningStock(stock, sortedMovements), <<>>)

\* ---------------------------------------------------------------- actions
Recompute ==
    /\ stockMovements' = DailyLedger(page', resolved', product', purchases',
                                     sales', startDate', endDate', tzOffset')
    /\ movementsWithTotals' = EventLedger(page', resolved', product',
                                          purchases', sales')

Init ==
    /\ page \in Pages
    /\ tzOffset \in (IF page = "daily" THEN TzOffsets ELSE {0})
    /\ resolved = {}
    /\ product = 0
    /\ purchases = <<>>
    /\ sales = <<>>
    /\ startDate = (IF page = "daily"
                    THEN GetFormattedDate(LocalMidnight(FirstOfMonth, tzOffset))
                    ELSE NoDate)
    /\ endDate = (IF page = "daily" THEN Today ELSE NoDate)
    /\ stockMovements = <<>>
    /\ movementsWithTotals = <<>>
    /\ failed = {}
    /\ DbAtRest
    /\ PreviewAtRest
    /\ InvoiceAtRest
    /\ PagerAtRest
    /\ LaterAtRest

\* fetchProductDetails resolves.
ProductResolves ==
    /\ "product" \notin resolved
    /\ \E q \in 0..MaxStock : product' = q
    /\ resolved' = resolved \cup {"product"}
    /\ UNCHANGED <<page, purchases, sales, startDate, endDate, tzOffset>>
    /\ Recompute
    /\ failed' = failed \ {"product"}
    /\ UNCHANGED <<dbVars, previewVars, invoiceVars, pagerVars, laterVars>>

\* fetchAllProductPurchases resolves with the product's purchase rows, in
\* whatever order the database returns them.
PurchasesResolve ==
    /\ "purchases" \notin resolved
    /\ \E ps \in SeqsUpTo(PurchaseRows(page), MaxEvents - Len(sales)) :
           purchases' = ps
    /\ resolved' = resolved \cup {"purchases"}
    /\ UNCHANGED <<page, product, sales, startDate, endDate, tzOffset>>
    /\ Recompute
    /\ failed' = failed \ {"purchases"}
    /\ UNCHANGED <<dbVars, previewVars, invoiceVars, pagerVars, laterVars>>

\* fetchAllProductSales resolves.
SalesResolve ==
    /\ "sales" \notin resolved
    /\ \E ss \in SeqsUpTo(SaleRows(page), MaxEvents - Len(purchases)) :
           sales' = ss
    /\ resolved' = resolved \cup {"sales"}
    /\ UNCHANGED <<page, product, purchases, startDate, endDate, tzOffset>>
    /\ Recompute
    /\ failed' = failed \ {"sales"}
    /\ UNCHANGED <<dbVars, previewVars, invoiceVars, pagerVars, laterVars>>

\* A refetch of the purchases returns the same rows in another order.
PurchasesRefetch ==
    /\ "purchases" \in resolved
    /\ \E ps \in Reorderings(purchases) : purchases' = ps
    /\ UNCHANGED <<page, resolved, product, sales, startDate, endDate, tzOffset>>
    /\ Recompute
    /\ UNCHANGED nonReportVars

\* A refetch of the sales returns the same rows in another order.
SalesRefetch ==
    /\ "sales" \in resolved
    /\ \E ss \in Reorderings(sales) : sales' = ss
    /\ UNCHANGED <<page, resolved, product, purchases, startDate, endDate,
                   tzOffset>>
    /\ Recompute
    /\ UNCHANGED nonReportVars

\* onChange of the Start Date input, rendered once the product has loaded.
SetStartDate ==
    /\ page = "daily"
    /\ "product" \in resolved
    /\ \E d \in Days \cup {NoDate} : startDate' = d
    /\ UNCHANGED <<page, resolved, product, purchases, sales, endDate, tzOffset>>
    /\ Recompute
    /\ UNCHANGED nonReportVars

\* onChange of the End Date input.
SetEndDate ==
    /\ page = "daily"
    /\ "product" \in resolved
    /\ \E d \in Days \cup {NoDate} : endDate' = d
    /\ UNCHANGED <<page, resolved, product, purchases, sales, startDate,
                   tzOffset>>
    /\ Recompute
    /\ UNCHANGED nonReportVars

Next ==
    \/ ProductResolves
    \/ PurchasesResolve
    \/ SalesResolve
    \/ PurchasesRefetch
    \/ SalesRefetch
    \/ SetStartDate
    \/ SetEndDate

Spec == Init /\ [][Next]_vars

\* ------------------------------------------------------- failing fetches
\* useQuery: isLoading while the first fetch is under way, error once it
\* has thrown.
IsLoading(q) == q \notin resolved /\ q \notin failed
HasError(q) == q \in failed

\* What the report page renders: the early returns, then the card of the
\* ledger with its skeleton, its rows or its empty-table row.
View ==
    IF IsLoading("product") THEN "pageSkeleton"
    ELSE IF HasError("product") THEN "error"
    ELSE IF (IsLoading("purchases") \/ IsLoading("sales"))
            /\ stockMovements = <<>> /\ movementsWithTotals = <<>>
         THEN "ledgerSkeleton"
    ELSE IF stockMovements = <<>> /\ movementsWithTotals = <<>>
         THEN "noMovements"
    ELSE "rows"

\* The queryFn of one of the three queries throws.
QueryFails ==
    /\ \E q \in Queries :
          /\ IsLoading(q)
          /\ failed' = failed \cup {q}
    /\ UNCHANGED <<reportVars, dbVars, previewVars, invoiceVars, pagerVars, laterVars>>

FetchNext ==
    \/ Next
    \/ QueryFails

FetchSpec == Init /\ [][FetchNext]_vars

\* ----------------------------------------------------------------- claims
\* Sums taken over index sets, in no particular order.
RECURSIVE SumOver(_, _)
SumOver(S, f) ==
    IF S = {} THEN 0
    ELSE LET x == CHOOSE y \in S : TRUE IN f[x] + SumOver(S \ {x}, f)

QuantityOf(rows, S) == SumOver(S, [i \in S |-> rows[i].quantity])
TotalQuantity(rows) == QuantityOf(rows, DOMAIN rows)

PurchasesOn(d) == {i \in DOMAIN purchases : purchases[i].purchase_date = d}
SalesOn(d) == {i \in DOMAIN sales : sales[i].invoice_date = d}
PurchasesEarlier(d) == {i \in DOMAIN purchases : purchases[i].purchase_date < d}
SalesEarlier(d) ==
    {i \in DOMAIN sales :
        sales[i].invoice_date # NoDate /\ sales[i].invoice_date < d}

\* The calendar day d lies in [startDate, endDate], a missing bound being open.
DayInWindow(d) ==
    /\ startDate = NoDate \/ startDate <= d
    /\ endDate = NoDate \/ d <= endDate

ExpectedInitialStock ==
    product - (TotalQuantity(purchases) - TotalQuantity(sales))

DailyShown == page = "daily" /\ resolved = Queries

Continuous(rows) ==
    \A i \in 1..(Len(rows) - 1) : rows[i].closingStock = rows[i + 1].openingStock

\* C1: balance continuity. In both ledgers every row's closingStock equals
\* the openingStock of the row after it.
C1_BalanceContinuity ==
    /\ Continuous(stockMovements)
    /\ Continuous(movementsWithTotals)

C1_Witness ==
    /\ Len(movementsWithTotals) >= 2
    /\ movementsWithTotals[1].closingStock # movementsWithTotals[1].openingStock
    /\ movementsWithTotals[2].closingStock # movementsWithTotals[2].openingStock

\* C2: terminal equality. When the window has no end, or its end is today
\* or later, and the ledger has a row, the last row's closingStock is the
\* product's stock_quantity; the per-event ledger has no window.
C2_TerminalEquality ==
    /\ (/\ endDate = NoDate \/ endDate >= Today
        /\ stockMovements # <<>>)
         => stockMovements[Len(stockMovements)].closingStock = product
    /\ movementsWithTotals # <<>>
         => movementsWithTotals[Len(movementsWithTotals)].closingStock = product

\* C3: absoluteInitialStock is stock_quantity - (all purchases - all sales),
\* whatever the order of the two lists and whatever the window; it is the
\* opening stock of the first row of an unfiltered ledger.
C3_AbsoluteInitialStock ==
    resolved = Queries =>
        /\ \A ps \in Reorderings(purchases) : \A ss \in Reorderings(sales) :
              /\ AbsoluteInitialStock(product, ps, ss) = ExpectedInitialStock
              /\ InitialOpeningStock(product, SortedMovements(ps, ss))
                    = ExpectedInitialStock
        /\ (stockMovements # <<>> /\ startDate = NoDate)
              => stockMovements[1].openingStock = ExpectedInitialStock
        /\ movementsWithTotals # <<>>
              => movementsWithTotals[1].openingStock = ExpectedInitialStock

C3_Witness ==
    /\ DailyShown
    /\ startDate = NoDate
    /\ endDate # NoDate
    /\ stockMovements # <<>>
    /\ Len(purchases) = 1
    /\ Len(sales) = 1
    /\ purchases[1].quantity # sales[1].quantity
    /\ stockMovements[1].openingStock # product

\* C4: with a start date, the first row opens at absoluteInitialStock plus
\* the purchases dated before the start date minus the sales dated before
\* it; without one it opens at absoluteInitialStock.
C4_OpeningStockForWindow ==
    (DailyShown /\ stockMovements # <<>>) =>
        stockMovements[1].openingStock =
            IF startDate # NoDate
            THEN ExpectedInitialStock
                   + QuantityOf(purchases, PurchasesEarlier(startDate))
                   - QuantityOf(sales, SalesEarlier(startDate))
            ELSE ExpectedInitialStock

\* An event of the day before the start date has no row and moves the opening.
C4_Witness ==
    /\ DailyShown
    /\ startDate # NoDate
    /\ stockMovements # <<>>
    /\ PurchasesOn(startDate - 1) # {}
    /\ SalesOn(startDate - 1) = {}
    /\ \A i \in DOMAIN stockMovements : stockMovements[i].date # startDate - 1
    /\ stockMovements[1].openingStock # ExpectedInitialStock

\* C5: the window is inclusive on both bounds and open on a missing one. A
\* day has a row exactly when it lies in the window and has a purchase or a
\* dated sale, and no event is both before the window and in it.
C5_InclusiveWindow ==
    DailyShown =>
        /\ \A d \in Days :
              (\E i \in DOMAIN stockMovements : stockMovements[i].date = d)
                <=> (DayInWindow(d) /\ (PurchasesOn(d) # {} \/ SalesOn(d) # {}))
        /\ \A i \in DOMAIN stockMovements : stockMovements[i].date \in Days
        /\ startDate # NoDate =>
              /\ \A i \in DOMAIN purchases :
                    ~(/\ PurchaseIsBefore(purchases[i], startDate, tzOffset)
                      /\ PurchaseInWindow(purchases[i], startDate, endDate,
                                          tzOffset))
              /\ \A i \in DOMAIN sales :
                    ~(/\ SaleIsBefore(sales[i], startDate, tzOffset)
                      /\ SaleInWindow(sales[i], startDate, endDate, tzOffset))

\* One event dated the start date and one dated the end date, both shown.
C5_Witness ==
    /\ DailyShown
    /\ startDate # NoDate
    /\ endDate # NoDate
    /\ startDate < endDate
    /\ PurchasesOn(startDate) # {}
    /\ SalesOn(endDate) # {}
    /\ Len(stockMovements) = 2
    /\ stockMovements[1].date = startDate
    /\ stockMovements[2].date = endDate

\* C6: order independence. Whatever order the purchases and the sales come
\* in, the ledger is the same, row for row and field for field.
C6_OrderIndependence ==
    \A ps \in Reorderings(purchases) : \A ss \in Reorderings(sales) :
        /\ DailyLedger(page, resolved, product, ps, ss, startDate, endDate,
                       tzOffset) = stockMovements
        /\ EventLedger(page, resolved, product, ps, ss) = movementsWithTotals

\* C7: the rows come in ascending order of their event date, strictly so in
\* the daily ledger (rows without a date are not compared).
C7_AscendingDates ==
    /\ \A i \in 1..(Len(stockMovements) - 1) :
          stockMovements[i].date < stockMovements[i + 1].date
    /\ \A i \in 1..(Len(movementsWithTotals) - 1) :
          (/\ movementsWithTotals[i].date # NoDate
           /\ movementsWithTotals[i + 1].date # NoDate)
            => movementsWithTotals[i].date <= movementsWithTotals[i + 1].date

ReferencesOn(d) ==
    ({purchases[i].reference_invoice : i \in PurchasesOn(d)} \ {NoRef})
      \cup {sales[i].invoice_number : i \in SalesOn(d)}

\* C8: daily aggregation. The daily ledger has one row for each day of the
\* window that has an event; the row carries the sum of that day's
\* purchases, the sum of its sales and each of its references once.
C8_DailyAggregation ==
    DailyShown =>
        /\ \A d \in Days :
              (DayInWindow(d) /\ (PurchasesOn(d) # {} \/ SalesOn(d) # {}))
                => Cardinality({i \in DOMAIN stockMovements :
                                   stockMovements[i].date = d}) = 1
        /\ \A i \in DOMAIN stockMovements :
              LET row == stockMovements[i]
              IN  /\ row.purchase = QuantityOf(purchases, PurchasesOn(row.date))
                  /\ row.sale = QuantityOf(sales, SalesOn(row.date))
                  /\ {row.invoice[k] : k \in DOMAIN row.invoice}
                        = ReferencesOn(row.date)
                  /\ \A k, l \in DOMAIN row.invoice :
                        row.invoice[k] = row.invoice[l] => k = l

\* Two purchases of one day in one row, next to the row of another day.
C8_Witness ==
    /\ DailyShown
    /\ Len(purchases) = 2
    /\ purchases[1].purchase_date = purchases[2].purchase_date
    /\ purchases[1].reference_invoice = purchases[2].reference_invoice
    /\ purchases[1].reference_invoice # NoRef
    /\ Len(stockMovements) = 1
    /\ stockMovements[1].purchase = purchases[1].quantity + purchases[2].quantity
    /\ Len(stockMovements[1].invoice) = 1

\* C9: every row closes at its opening stock plus the purchased quantity
\* minus the sold quantity (the daily total being opening plus purchased),
\* without clamping: a negative balance is reported as it is.
C9_RowArithmetic ==
    /\ \A i \in DOMAIN stockMovements :
          LET row == stockMovements[i]
          IN  /\ row.total = row.openingStock + row.purchase
              /\ row.closingStock = row.openingStock + row.purchase - row.sale
    /\ \A i \in DOMAIN movementsWithTotals :
          LET row == movementsWithTotals[i]
          IN  row.closingStock =
                  IF row.type = "Purchase"
                  THEN row.openingStock + row.quantity
                  ELSE row.openingStock - row.quantity

C9_Witness ==
    /\ stockMovements # <<>>
    /\ stockMovements[1].openingStock >= 0
    /\ stockMovements[1].sale > 0
    /\ stockMovements[1].closingStock < 0

\* C10: without purchases and sales the ledger is empty and
\* absoluteInitialStock is the product's stock_quantity, whatever the stock
\* and the window.
C10_EmptyEvents ==
    (resolved = Queries /\ purchases = <<>> /\ sales = <<>>) =>
        /\ stockMovements = <<>>
        /\ movementsWithTotals = <<>>
        /\ AbsoluteInitialStock(product, purchases, sales) = product

C10_Witness ==
    /\ DailyShown
    /\ purchases = <<>>
    /\ sales = <<>>
    /\ product > 0
    /\ startDate = NoDate
    /\ endDate # Today
    /\ stockMovements = <<>>

\* ============================================================== database
\* The mutations of the CRUD pages against the tables.  Every awaited call
\* of the client is one step; a statement and the triggers it fires are one
\* step of the database.  A client runs one mutation at a time, so Clients
\* bounds the mutations that are in flight together.  session[c].restored
\* keeps, for the mutation in flight, by how much its own updates have moved
\* each product's stock_quantity, and session[c].before the items its invoice
\* had when the mutation was called.
StockLevels == (0 - MaxDrift)..MaxDrift

\* The rows a form can hold: at least one item, each of quantity >= 1.
ItemRows == [product_id : Products, quantity : Quantities]
FormItems == SeqsUpTo(ItemRows, MaxItems) \ {<<>>}
PurchaseRecords == [product_id : Products, quantity : Quantities]

RECURSIVE ItemsQuantity(_, _)
ItemsQuantity(items, p) ==
    IF items = <<>> THEN 0
    ELSE (IF Head(items).product_id = p THEN Head(items).quantity ELSE 0)
           + ItemsQuantity(Tail(items), p)

\* Trigger on purchases, after insert: the stock rises by the quantity.
StockOnPurchaseInsert(stock, row) ==
    [stock EXCEPT ![row.product_id] = @ + row.quantity]

\* Trigger on purchases, after delete: the stock falls by the quantity.
StockOnPurchaseDelete(stock, row) ==
    [stock EXCEPT ![row.product_id] = @ - row.quantity]

\* Trigger update_stock_on_sale on invoice_items, after insert, row by row.
RECURSIVE update_stock_on_sale(_, _)
update_stock_on_sale(stock, items) ==
    IF items = <<>> THEN stock
    ELSE update_stock_on_sale(
             [stock EXCEPT ![Head(items).product_id] = @ - Head(items).quantity],
             Tail(items))

IsIdle(c) == session[c].op = "idle"
At(c, op, pc) == session[c].op = op /\ session[c].pc = pc
Goto(c, pc) == session' = [session EXCEPT ![c].pc = pc]
Return(c) == session' = [session EXCEPT ![c] = Idle]

DbInit ==
    /\ dbInitial \in [Products -> 0..MaxStock]
    /\ dbStock = dbInitial
    /\ dbPurchases = <<>>
    /\ dbPurchaseSeq = 0
    /\ dbInvoices = {}
    /\ dbItems = [i \in InvoiceIds |-> <<>>]
    /\ session = [c \in Clients |-> Idle]

\* upsertPurchase, the insert branch: one statement.
CreatePurchase(c) ==
    /\ IsIdle(c)
    /\ dbPurchaseSeq < MaxPurchases
    /\ dbPurchaseSeq' = dbPurchaseSeq + 1
    /\ \E row \in PurchaseRecords :
          /\ dbPurchases' = (dbPurchaseSeq' :> row) @@ dbPurchases
          /\ dbStock' = StockOnPurchaseInsert(dbStock, row)
    /\ dbStock' \in [Products -> StockLevels]
    /\ UNCHANGED <<dbInitial, dbInvoices, dbItems, session>>
    /\ UNCHANGED <<reportVars, fetchVars, previewVars, invoiceVars, pagerVars, laterVars>>

\* Faulty variant: the delete is filtered by the row's product instead of its
\* id, and takes every purchase of that product with it.
DeletePurchaseByProduct(c) ==
    /\ IsIdle(c)
    /\ \E id \in DOMAIN dbPurchases :
          LET gone == {k \in DOMAIN dbPurchases :
                          dbPurchases[k].product_id = dbPurchases[id].product_id}
          IN  /\ dbPurchases' = [k \in DOMAIN dbPurchases \ gone |-> dbPurchases[k]]
              /\ dbStock' = [dbStock EXCEPT ![dbPurchases[id].product_id] =
                                 @ - SumOver(gone, [k \in gone |-> dbPurchases[k].quantity])]
    /\ dbStock' \in [Products -> StockLevels]
    /\ UNCHANGED <<dbInitial, dbPurchaseSeq, dbInvoices, dbItems, session>>
    /\ UNCHANGED <<reportVars, fetchVars, previewVars, invoiceVars, pagerVars, laterVars>>

\* deletePurchase: one statement.
DeletePurchase(c) ==
    /\ IsIdle(c)
    /\ \E id \in DOMAIN dbPurchases :
          /\ dbPurchases' = [k \in DOMAIN dbPurchases \ {id} |-> dbPurchases[k]]
          /\ dbStock' = StockOnPurchaseDelete(dbStock, dbPurchases[id])
    /\ dbStock' \in [Products -> StockLevels]
    /\ UNCHANGED <<dbInitial, dbPurchaseSeq, dbInvoices, dbItems, session>>
    /\ UNCHANGED <<reportVars, fetchVars, previewVars, invoiceVars, pagerVars, laterVars>>

\* The invoice form is submitted: mutation.mutate({formData, id}); id = 0
\* is the form of a new invoice.
SubmitInvoice(c) ==
    /\ IsIdle(c)
    /\ \E id \in dbInvoices \cup (IF dbInvoices = InvoiceIds THEN {} ELSE {0}) :
       \E items \in FormItems :
          session' = [session EXCEPT ![c] =
              [op |-> "upsertInvoice",
               pc |-> IF id = 0 THEN "insertInvoice" ELSE "updateInvoice",
               id |-> id, items |-> items, i |-> 0, stock_quantity |-> 0,
               restored |-> [p \in Products |-> 0],
               before |-> IF id = 0 THEN <<>> ELSE dbItems[id]]]
    /\ UNCHANGED <<dbInitial, dbStock, dbPurchases, dbPurchaseSeq, dbInvoices, dbItems>>
    /\ UNCHANGED <<reportVars, fetchVars, previewVars, invoiceVars, pagerVars, laterVars>>

\* upsertInvoice, update branch: update(invoiceData).eq('id', id).single()
\* fails when the row is gone.
UpsertUpdateInvoice(c) ==
    /\ At(c, "upsertInvoice", "updateInvoice")
    /\ IF session[c].id \in dbInvoices THEN Goto(c, "deleteItems") ELSE Return(c)
    /\ UNCHANGED <<dbInitial, dbStock, dbPurchases, dbPurchaseSeq, dbInvoices, dbItems>>
    /\ UNCHANGED <<reportVars, fetchVars, previewVars, invoiceVars, pagerVars, laterVars>>

\* upsertInvoice, update branch: delete().eq('invoice_id', id).
UpsertDeleteItems(c) ==
    /\ At(c, "upsertInvoice", "deleteItems")
    /\ dbItems' = [dbItems EXCEPT ![session[c].id] = <<>>]
    /\ Goto(c, "insertItems")
    /\ UNCHANGED <<dbInitial, dbStock, dbPurchases, dbPurchaseSeq, dbInvoices>>
    /\ UNCHANGED <<reportVars, fetchVars, previewVars, invoiceVars, pagerVars, laterVars>>

\* upsertInvoice, create branch: insert(invoiceData).select('id').single().
UpsertInsertInvoice(c) ==
    /\ At(c, "upsertInvoice", "insertInvoice")
    /\ \E id \in InvoiceIds \ dbInvoices :
          /\ dbInvoices' = dbInvoices \cup {id}
          /\ session' = [session EXCEPT ![c].id = id, ![c].pc = "insertItems"]
    /\ UNCHANGED <<dbInitial, dbStock, dbPurchases, dbPurchaseSeq, dbItems>>
    /\ UNCHANGED <<reportVars, fetchVars, previewVars, invoiceVars, pagerVars, laterVars>>

\* upsertInvoice, both branches: insert(itemsData); the foreign key refuses
\* the rows of an invoice that is gone.
UpsertInsertItems(c) ==
    /\ At(c, "upsertInvoice", "insertItems")
    /\ IF session[c].id \in dbInvoices
       THEN /\ dbItems' = [dbItems EXCEPT ![session[c].id] = @ \o session[c].items]
            /\ dbStock' = update_stock_on_sale(dbStock, session[c].items)
            /\ dbStock' \in [Products -> StockLevels]
       ELSE UNCHANGED <<dbItems, dbStock>>
    /\ Return(c)
    /\ UNCHANGED <<dbInitial, dbPurchases, dbPurchaseSeq, dbInvoices>>
    /\ UNCHANGED <<reportVars, fetchVars, previewVars, invoiceVars, pagerVars, laterVars>>

\* deleteMutation.mutate(invoiceId) on a row of the invoice list.
ClickDeleteInvoice(c) ==
    /\ IsIdle(c)
    /\ \E id \in dbInvoices :
          session' = [session EXCEPT ![c] =
              [op |-> "deleteInvoice", pc |-> "fetchInvoice", id |-> id,
               items |-> <<>>, i |-> 0, stock_quantity |-> 0,
               restored |-> [p \in Products |-> 0],
               before |-> dbItems[id]]]
    /\ UNCHANGED <<dbInitial, dbStock, dbPurchases, dbPurchaseSeq, dbInvoices, dbItems>>
    /\ UNCHANGED <<reportVars, fetchVars, previewVars, invoiceVars, pagerVars, laterVars>>

\* Faulty variant: the items are deleted right after the fetch, the loop
\* that restores the stock being skipped.
DeleteFetchInvoiceSkipsRestore(c) ==
    /\ At(c, "deleteInvoice", "fetchInvoice")
    /\ IF session[c].id \notin dbInvoices THEN Return(c)
       ELSE session' = [session EXCEPT
                ![c].items = dbItems[session[c].id],
                ![c].i = 1,
                ![c].pc = "deleteItems"]
    /\ UNCHANGED <<dbInitial, dbStock, dbPurchases, dbPurchaseSeq, dbInvoices, dbItems>>
    /\ UNCHANGED <<reportVars, fetchVars, previewVars, invoiceVars, pagerVars, laterVars>>

\* deleteInvoice: select('*, invoice_items(product_id, quantity)').single().
DeleteFetchInvoice(c) ==
    /\ At(c, "deleteInvoice", "fetchInvoice")
    /\ IF session[c].id \notin dbInvoices THEN Return(c)
       ELSE session' = [session EXCEPT
                ![c].items = dbItems[session[c].id],
                ![c].i = 1,
                ![c].pc = IF dbItems[session[c].id] = <<>> THEN "deleteItems"
                          ELSE "selectProduct"]
    /\ UNCHANGED <<dbInitial, dbStock, dbPurchases, dbPurchaseSeq, dbInvoices, dbItems>>
    /\ UNCHANGED <<reportVars, fetchVars, previewVars, invoiceVars, pagerVars, laterVars>>

\* deleteInvoice, in the loop: select('stock_quantity') of the item's product.
DeleteSelectProduct(c) ==
    /\ At(c, "deleteInvoice", "selectProduct")
    /\ session' = [session EXCEPT
          ![c].stock_quantity = dbStock[session[c].items[session[c].i].product_id],
          ![c].pc = "updateProduct"]
    /\ UNCHANGED <<dbInitial, dbStock, dbPurchases, dbPurchaseSeq, dbInvoices, dbItems>>
    /\ UNCHANGED <<reportVars, fetchVars, previewVars, invoiceVars, pagerVars, laterVars>>

\* deleteInvoice, in the loop: update({stock_quantity: newStock}).
DeleteUpdateProduct(c) ==
    /\ At(c, "deleteInvoice", "updateProduct")
    /\ LET item == session[c].items[session[c].i]
           newStock == session[c].stock_quantity + item.quantity
       IN  /\ newStock \in StockLevels
           /\ dbStock' = [dbStock EXCEPT ![item.product_id] = newStock]
    /\ session' = [session EXCEPT
          ![c].i = @ + 1,
          ![c].restored = [@ EXCEPT
              ![session[c].items[session[c].i].product_id] =
                  @ + dbStock'[session[c].items[session[c].i].product_id]
                    - dbStock[session[c].items[session[c].i].product_id]],
          ![c].pc = IF session[c].i = Len(session[c].items) THEN "deleteItems"
                    ELSE "selectProduct"]
    /\ UNCHANGED <<dbInitial, dbPurchases, dbPurchaseSeq, dbInvoices, dbItems>>
    /\ UNCHANGED <<reportVars, fetchVars, previewVars, invoiceVars, pagerVars, laterVars>>

\* deleteInvoice: invoice_items.delete().eq('invoice_id', invoiceId).
DeleteItems(c) ==
    /\ At(c, "deleteInvoice", "deleteItems")
    /\ dbItems' = [dbItems EXCEPT ![session[c].id] = <<>>]
    /\ Goto(c, "deleteInvoice")
    /\ UNCHANGED <<dbInitial, dbStock, dbPurchases, dbPurchaseSeq, dbInvoices>>
    /\ UNCHANGED <<reportVars, fetchVars, previewVars, invoiceVars, pagerVars, laterVars>>

\* deleteInvoice: invoices.delete().eq('id', invoiceId).
DeleteInvoiceRow(c) ==
    /\ At(c, "deleteInvoice", "deleteInvoice")
    /\ dbInvoices' = dbInvoices \ {session[c].id}
    /\ Return(c)
    /\ UNCHANGED <<dbInitial, dbStock, dbPurchases, dbPurchaseSeq, dbItems>>
    /\ UNCHANGED <<reportVars, fetchVars, previewVars, invoiceVars, pagerVars, laterVars>>

ReportAtRest ==
    /\ page = "daily"
    /\ resolved = {}
    /\ product = 0
    /\ purchases = <<>>
    /\ sales = <<>>
    /\ startDate = NoDate
    /\ endDate = NoDate
    /\ tzOffset = 0
    /\ stockMovements = <<>>
    /\ movementsWithTotals = <<>>

DbSpecInit ==
    DbInit /\ ReportAtRest /\ failed = {} /\ PreviewAtRest /\ InvoiceAtRest /\ PagerAtRest
    /\ LaterAtRest

DbNext ==
    \/ \E c \in Clients :
          \/ CreatePurchase(c)
          \/ DeletePurchase(c)
          \/ SubmitInvoice(c)
          \/ UpsertUpdateInvoice(c)
          \/ UpsertDeleteItems(c)
          \/ UpsertInsertInvoice(c)
          \/ UpsertInsertItems(c)
          \/ ClickDeleteInvoice(c)
          \/ DeleteFetchInvoice(c)
          \/ DeleteSelectProduct(c)
          \/ DeleteUpdateProduct(c)
          \/ DeleteItems(c)
          \/ DeleteInvoiceRow(c)

DbSpec == DbSpecInit /\ [][DbNext]_vars

\* ------------------------------------------------- claims on the database
Quiescent == \A c \in Clients : IsIdle(c)

PurchasedQuantity(p) ==
    LET ids == {id \in DOMAIN dbPurchases : dbPurchases[id].product_id = p}
    IN  SumOver(ids, [id \in ids |-> dbPurchases[id].quantity])

SoldQuantity(p) ==
    SumOver(InvoiceIds, [i \in InvoiceIds |-> ItemsQuantity(dbItems[i], p)])

\* C11: product stock invariant. Whenever no mutation is running, each
\* product's stock_quantity is the quantity it was created with, plus the
\* quantities of its purchase rows, minus the quantities of its invoice items.
C11_StockInvariant ==
    Quiescent =>
        \A p \in Products :
            dbStock[p] = dbInitial[p] + PurchasedQuantity(p) - SoldQuantity(p)

\* C12: a sale is credited back when it is deleted. In every step that
\* deletes the items of an invoice, the mutation deleting them has put each
\* deleted item's quantity back on its product, once.
C12_SaleCreditedBack ==
    [][\A i \in InvoiceIds :
          (dbItems[i] # <<>> /\ dbItems'[i] = <<>>) =>
              \E c \in Clients :
                  /\ session[c].id = i
                  /\ session[c].pc = "deleteItems"
                  /\ \A p \in Products :
                        session[c].restored[p] = ItemsQuantity(dbItems[i], p)]_vars

C14_ReconstructorAfterAllResolved ==
    resolved # Queries =>
        /\ stockMovements = <<>>
        /\ movementsWithTotals = <<>>
        /\ View # "rows"

\* The purchases and the sales have arrived with rows, the product has not.
C14_Witness ==
    /\ resolved = {"purchases", "sales"}
    /\ purchases # <<>>
    /\ sales # <<>>
    /\ IsLoading("product")
    /\ stockMovements = <<>>
    /\ View = "pageSkeleton"

\* C15: a failed fetch is an error state. Once no fetch is under way and
\* the fetch of the product, of the purchases or of the sales has failed,
\* the page shows its error state, not an empty or partial ledger, and no
\* ledger is computed.
C15_FetchFailureIsErrorState ==
    (/\ \A q \in Queries : ~IsLoading(q)
     /\ \E q \in Queries : HasError(q))
        => /\ View = "error"
           /\ stockMovements = <<>>
           /\ movementsWithTotals = <<>>
(***************************************************************************)
(* The invoice preview: handleViewClick of the invoices page.  Every click *)
(* starts its own fetchInvoiceWithItems; nothing cancels an earlier one,   *)
(* and each response that arrives is written to selectedInvoice.           *)
(***************************************************************************)
ListedInvoices == InvoiceNumbers

Requests == [seq : 1..MaxClicks, invoiceId : ListedInvoices]

Settled(ok) == [seq : 1..MaxClicks, invoiceId : ListedInvoices, ok : {ok}]

\* The View button of a row: the call is issued and handleViewClick waits.
\* The open dialog covers the list, so a row is clicked only while it is
\* closed.
HandleViewClick ==
    /\ ~isModalOpen
    /\ issued < MaxClicks
    /\ \E invoiceId \in ListedInvoices :
          /\ issued' = issued + 1
          /\ inFlight' = inFlight \cup {[seq |-> issued + 1, invoiceId |-> invoiceId]}
    /\ UNCHANGED <<selectedInvoice, isModalOpen, arrivals>>
    /\ UNCHANGED <<reportVars, dbVars, fetchVars, invoiceVars, pagerVars, laterVars>>

FetchInvoiceResolvesLatestOnly ==
    \E r \in inFlight :
        /\ inFlight' = inFlight \ {r}
        /\ arrivals' = Append(arrivals, [seq |-> r.seq, invoiceId |-> r.invoiceId, ok |-> TRUE])
        /\ IF r.seq = issued
              THEN selectedInvoice' = r.invoiceId /\ isModalOpen' = TRUE
              ELSE UNCHANGED <<selectedInvoice, isModalOpen>>
        /\ UNCHANGED issued
        /\ UNCHANGED <<reportVars, dbVars, fetchVars, invoiceVars, pagerVars, laterVars>>

\* The awaited call returns: setSelectedInvoice(fullInvoice), setIsModalOpen(true).
FetchInvoiceResolves ==
    \E r \in inFlight :
        /\ inFlight' = inFlight \ {r}
        /\ arrivals' = Append(arrivals, [seq |-> r.seq, invoiceId |-> r.invoiceId, ok |-> TRUE])
        /\ selectedInvoice' = r.invoiceId
        /\ isModalOpen' = TRUE
        /\ UNCHANGED issued
        /\ UNCHANGED <<reportVars, dbVars, fetchVars, invoiceVars, pagerVars, laterVars>>

\* The awaited call throws: the catch block shows a toast and sets nothing.
FetchInvoiceRejects ==
    \E r \in inFlight :
        /\ inFlight' = inFlight \ {r}
        /\ arrivals' = Append(arrivals, [seq |-> r.seq, invoiceId |-> r.invoiceId, ok |-> FALSE])
        /\ UNCHANGED <<selectedInvoice, isModalOpen, issued>>
        /\ UNCHANGED <<reportVars, dbVars, fetchVars, invoiceVars, pagerVars, laterVars>>

\* onClose of the dialog: only the flag is cleared.
CloseModal ==
    /\ isModalOpen
    /\ isModalOpen' = FALSE
    /\ UNCHANGED <<selectedInvoice, issued, inFlight, arrivals>>
    /\ UNCHANGED <<reportVars, dbVars, fetchVars, invoiceVars, pagerVars, laterVars>>

PreviewInit ==
    PreviewAtRest /\ ReportAtRest /\ failed = {} /\ DbAtRest /\ InvoiceAtRest /\ PagerAtRest
    /\ LaterAtRest

PreviewNext ==
    \/ HandleViewClick
    \/ FetchInvoiceResolves
    \/ FetchInvoiceRejects
    \/ CloseModal

PreviewSpec == PreviewInit /\ [][PreviewNext]_vars

Resolved == SelectSeq(arrivals, LAMBDA a : a.ok)

AmountScale == 20000
Paisa == AmountScale \div 100
Rupee == AmountScale
RateScale == 100
One == RateScale

UnitPrices == {20 * Paisa, 1099 * Paisa, 2500 * Paisa, 10000 * Paisa}
TaxRates == {0, 5, 18}

InvoiceLines == [quantity : Quantities, unit_price : UnitPrices, tax_rate : TaxRates]

\* amount * rate
Times(amount, rate) == (amount * rate) \div RateScale

\* Intl.NumberFormat with two fraction digits rounds half away from zero;
\* no amount of an invoice is negative.
formatNumber(amount) == ((amount + Paisa \div 2) \div Paisa) * Paisa
formatCurrency(amount) == ((amount + Paisa \div 2) \div Paisa) * Paisa

\* reduce((acc, x) => acc + x, 0)
RECURSIVE ReduceSum(_, _)
ReduceSum(s, acc) == IF s = <<>> THEN acc ELSE ReduceSum(Tail(s), acc + Head(s))

\* The totals memo of the form.
TotalsTaxOnce(items) ==
    LET subtotal == ReduceSum([k \in DOMAIN items |->
                         items[k].quantity * items[k].unit_price], 0)
        tax == ReduceSum([k \in DOMAIN items |->
                         Times(items[k].unit_price, items[k].tax_rate)], 0)
    IN  [subtotal |-> subtotal, tax |-> tax, grandTotal |-> subtotal + tax]

Totals(items) ==
    LET subtotal == ReduceSum([k \in DOMAIN items |->
                         items[k].quantity * items[k].unit_price], 0)
        tax == ReduceSum([k \in DOMAIN items |->
                         Times(items[k].quantity * items[k].unit_price,
                               items[k].tax_rate)], 0)
    IN  [subtotal |-> subtotal, tax |-> tax, grandTotal |-> subtotal + tax]

\* The trigger on invoice_items recomputes invoices.total_amount from all
\* the lines of the invoice.
update_invoice_totals(items) ==
    ReduceSum([k \in DOMAIN items |->
                  Times(items[k].quantity * items[k].unit_price,
                        One + items[k].tax_rate)], 0)

\* One row of the template's table.
TemplateRowFullTaxTwice(item) ==
    LET itemTaxableAmount == item.quantity * item.unit_price
        itemTotalCGST == Times(itemTaxableAmount, item.tax_rate)
        itemTotalSGST == Times(itemTaxableAmount, item.tax_rate)
    IN  [itemTaxableAmount |-> itemTaxableAmount,
         itemTotalCGST |-> itemTotalCGST,
         itemTotalSGST |-> itemTotalSGST,
         itemTotal |-> itemTaxableAmount + itemTotalCGST + itemTotalSGST]

TemplateRow(item) ==
    LET itemTaxableAmount == item.quantity * item.unit_price
        itemTotalCGST == Times(itemTaxableAmount, item.tax_rate) \div 2
        itemTotalSGST == Times(itemTaxableAmount, item.tax_rate) \div 2
    IN  [itemTaxableAmount |-> itemTaxableAmount,
         itemTotalCGST |-> itemTotalCGST,
         itemTotalSGST |-> itemTotalSGST,
         itemTotal |-> itemTaxableAmount + itemTotalCGST + itemTotalSGST]

\* The template: its totals, its rows, and the figures it prints.
InvoiceTemplate(invoice) ==
    LET items == invoice.invoice_items
        taxableAmount == ReduceSum([k \in DOMAIN items |->
                             items[k].quantity * items[k].unit_price], 0)
        totalCGST == ReduceSum([k \in DOMAIN items |->
                         Times(items[k].quantity * items[k].unit_price,
                               items[k].tax_rate) \div 2], 0)
        totalSGST == ReduceSum([k \in DOMAIN items |->
                         Times(items[k].quantity * items[k].unit_price,
                               items[k].tax_rate) \div 2], 0)
        grandTotal == taxableAmount + totalCGST + totalSGST
        rows == [k \in DOMAIN items |-> TemplateRow(items[k])]
    IN  [rows |-> rows,
         taxableAmount |-> taxableAmount,
         totalCGST |-> totalCGST,
         totalSGST |-> totalSGST,
         grandTotal |-> grandTotal,
         cells |-> [k \in DOMAIN rows |->
                      << formatCurrency(rows[k].itemTaxableAmount),
                         formatCurrency(rows[k].itemTotalCGST),
                         formatCurrency(rows[k].itemTotalSGST),
                         formatCurrency(rows[k].itemTotal) >>]
                   \o << << formatCurrency(taxableAmount), formatCurrency(totalCGST),
                            formatCurrency(totalSGST), formatCurrency(grandTotal) >> >>]

\* One line of the PDF's items table.
TableLineRateOnTaxable(item) ==
    LET taxableAmount == item.quantity * item.unit_price
        inclusiveRate == Times(taxableAmount, One + item.tax_rate)
        total == Times(taxableAmount, One + item.tax_rate)
    IN  [taxableAmount |-> taxableAmount, inclusiveRate |-> inclusiveRate,
         total |-> total]

TableLine(item) ==
    LET taxableAmount == item.quantity * item.unit_price
        inclusiveRate == Times(item.unit_price, One + item.tax_rate)
        total == Times(taxableAmount, One + item.tax_rate)
    IN  [taxableAmount |-> taxableAmount, inclusiveRate |-> inclusiveRate,
         total |-> total]

\* The PDF: the items table and the totals block under it.
DownloadPDF(invoice) ==
    LET items == invoice.invoice_items
        lines == [k \in DOMAIN items |-> TableLine(items[k])]
        taxableTotal == ReduceSum([k \in DOMAIN items |->
                            items[k].quantity * items[k].unit_price], 0)
        taxTotal == invoice.total_amount - taxableTotal
    IN  [lines |-> lines,
         tableData |-> [k \in DOMAIN lines |->
                          << items[k].quantity,
                             formatNumber(lines[k].inclusiveRate),
                             formatNumber(lines[k].taxableAmount),
                             formatNumber(lines[k].total) >>],
         taxableTotal |-> taxableTotal,
         taxTotal |-> taxTotal,
         body |-> << formatNumber(taxableTotal), formatNumber(taxTotal \div 2),
                     formatNumber(taxTotal \div 2),
                     formatNumber(invoice.total_amount) >>]

OtherThanInvoiceVars ==
    <<reportVars, dbVars, fetchVars, previewVars, pagerVars, laterVars>>

\* Add Item, and the product and quantity chosen on the new line.
AppendLine ==
    /\ fullInvoice = NotSaved
    /\ Len(watchedItems) < MaxLines
    /\ \E item \in InvoiceLines : watchedItems' = Append(watchedItems, item)
    /\ totals' = Totals(watchedItems')
    /\ UNCHANGED <<fullInvoice, template, pdf>>
    /\ UNCHANGED OtherThanInvoiceVars

\* The remove button of a line.
RemoveLine ==
    /\ fullInvoice = NotSaved
    /\ \E k \in DOMAIN watchedItems :
          watchedItems' = SubSeq(watchedItems, 1, k - 1)
                            \o SubSeq(watchedItems, k + 1, Len(watchedItems))
    /\ totals' = Totals(watchedItems')
    /\ UNCHANGED <<fullInvoice, template, pdf>>
    /\ UNCHANGED OtherThanInvoiceVars

\* The form is submitted with at least one line; the lines are inserted, the
\* trigger sets the total, and the invoice is fetched for the preview.
SaveInvoice ==
    /\ fullInvoice = NotSaved
    /\ watchedItems # <<>>
    /\ fullInvoice' = [invoice_items |-> watchedItems,
                       total_amount |-> update_invoice_totals(watchedItems)]
    /\ UNCHANGED <<watchedItems, totals, template, pdf>>
    /\ UNCHANGED OtherThanInvoiceVars

\* The preview dialog renders the template.
RenderTemplate ==
    /\ fullInvoice # NotSaved
    /\ template = NotRendered
    /\ template' = InvoiceTemplate(fullInvoice)
    /\ UNCHANGED <<watchedItems, totals, fullInvoice, pdf>>
    /\ UNCHANGED OtherThanInvoiceVars

\* Download PDF.
HandleDownloadPDF ==
    /\ fullInvoice # NotSaved
    /\ pdf = NotDrawn
    /\ pdf' = DownloadPDF(fullInvoice)
    /\ UNCHANGED <<watchedItems, totals, fullInvoice, template>>
    /\ UNCHANGED OtherThanInvoiceVars

InvoiceInit ==
    InvoiceAtRest /\ ReportAtRest /\ failed = {} /\ DbAtRest /\ PreviewAtRest /\ PagerAtRest
    /\ LaterAtRest

InvoiceNext ==
    \/ AppendLine
    \/ RemoveLine
    \/ SaveInvoice
    \/ RenderTemplate
    \/ HandleDownloadPDF

InvoiceSpec == InvoiceInit /\ [][InvoiceNext]_vars

\* ------------------------------------------------ claims on invoice amounts
\* C17: on every line of the template and of the PDF, taxableAmount is
\* quantity * unitPrice; with taxAmount = taxableAmount * taxRate, CGST and
\* SGST are equal, each is taxAmount / 2, they add up to taxAmount, and the
\* line total is taxableAmount + taxAmount.
C17_PerLineTax ==
    /\ \A k \in DOMAIN template.rows :
          LET item == fullInvoice.invoice_items[k]
              row == template.rows[k]
              taxableAmount == item.quantity * item.unit_price
          IN  /\ row.itemTaxableAmount = taxableAmount
              /\ row.itemTotalCGST = row.itemTotalSGST
              /\ 2 * row.itemTotalCGST * RateScale = taxableAmount * item.tax_rate
              /\ (row.itemTotalCGST + row.itemTotalSGST) * RateScale
                     = taxableAmount * item.tax_rate
              /\ row.itemTotal * RateScale
                     = taxableAmount * RateScale + taxableAmount * item.tax_rate
    /\ \A k \in DOMAIN pdf.lines :
          LET item == fullInvoice.invoice_items[k]
              line == pdf.lines[k]
              taxableAmount == item.quantity * item.unit_price
          IN  /\ line.taxableAmount = taxableAmount
              /\ line.total * RateScale
                     = taxableAmount * RateScale + taxableAmount * item.tax_rate

\* One unit at 25.00 and 5%: a tax of 1.25, halves of 0.625.
C17_Witness ==
    /\ fullInvoice.invoice_items
          = << [quantity |-> 1, unit_price |-> 2500 * Paisa, tax_rate |-> 5] >>
    /\ template.rows # <<>>
    /\ template.rows[1].itemTotalCGST * 1000 = 625 * Rupee
    /\ template.rows[1].itemTotal * 100 = 2625 * Rupee
    /\ pdf.lines # <<>>
    /\ pdf.lines[1].total * 100 = 2625 * Rupee

C19_InclusiveRate ==
    /\ \A k \in DOMAIN pdf.lines :
          LET item == fullInvoice.invoice_items[k]
              line == pdf.lines[k]
          IN  /\ line.inclusiveRate * RateScale = item.unit_price * (One + item.tax_rate)
              /\ (line.inclusiveRate * RateScale) % (One + item.tax_rate) = 0
              /\ (line.inclusiveRate * RateScale) \div (One + item.tax_rate)
                     = item.unit_price
              /\ item.quantity * line.inclusiveRate = line.total
              /\ item = [quantity |-> 2, unit_price |-> 100 * Rupee, tax_rate |-> 18]
                    => /\ line.inclusiveRate = 118 * Rupee
                       /\ line.taxableAmount = 200 * Rupee
                       /\ line.total = 236 * Rupee
    /\ \A k \in DOMAIN template.rows :
          fullInvoice.invoice_items[k]
                = [quantity |-> 2, unit_price |-> 100 * Rupee, tax_rate |-> 18]
             => /\ template.rows[k].itemTaxableAmount = 200 * Rupee
                /\ template.rows[k].itemTotalCGST = 18 * Rupee
                /\ template.rows[k].itemTotalSGST = 18 * Rupee
                /\ template.rows[k].itemTotal = 236 * Rupee

\* The invoice of the example, rendered and drawn.
C19_Witness ==
    /\ fullInvoice.invoice_items
          = << [quantity |-> 2, unit_price |-> 100 * Rupee, tax_rate |-> 18] >>
    /\ fullInvoice.total_amount = 236 * Rupee
    /\ pdf.lines # <<>>
    /\ pdf.lines[1].inclusiveRate = 118 * Rupee
    /\ template.rows # <<>>
    /\ template.totalCGST = 18 * Rupee

(***************************************************************************)
(* The pager of the ledger table.  The ledger is whatever the memo last    *)
(* returned; a row stands for itself by its position in that ledger.  The  *)
(* page number is kept across a recomputation of the ledger and is reset   *)
(* only by a change of the date filter of the daily page.                  *)
(***************************************************************************)
ITEMS_PER_PAGE(pg) == IF pg = "daily" THEN 20 ELSE 5

\* Math.ceil(n / d)
Ceil(n, d) == (n + d - 1) \div d

Min(a, b) == IF a <= b THEN a ELSE b

\* Array.prototype.slice(start, end) with 0 <= start <= end
Slice(s, start, end) == SubSeq(s, Min(start, Len(s)) + 1, Min(end, Len(s)))

TotalPages(pg, rows) == Ceil(Len(rows), ITEMS_PER_PAGE(pg))

PaginatedMovementsFromNextPage(pg, cur, rows) ==
    LET startIndex == cur * ITEMS_PER_PAGE(pg)
    IN  Slice(rows, startIndex, startIndex + ITEMS_PER_PAGE(pg))

PaginatedMovements(pg, cur, rows) ==
    LET startIndex == (cur - 1) * ITEMS_PER_PAGE(pg)
    IN  Slice(rows, startIndex, startIndex + ITEMS_PER_PAGE(pg))

\* The Pagination component: nothing for a single page, else the range it
\* announces and the state of its two buttons.
Pagination(cur, totalPages, totalCount, itemsPerPage) ==
    [shown |-> totalPages > 1,
     fromItem |-> (cur - 1) * itemsPerPage + 1,
     toItem |-> Min(cur * itemsPerPage, totalCount),
     previousDisabled |-> cur = 1,
     nextDisabled |-> cur = totalPages]

Pager ==
    Pagination(currentPage, TotalPages(page, ledgerRows), Len(ledgerRows),
               ITEMS_PER_PAGE(page))

\* The furthest page the model follows the Next button to.
LastPageFollowed == Ceil(MaxRows, ITEMS_PER_PAGE(page)) + 1

OtherThanPagerVars == <<dbVars, fetchVars, previewVars, invoiceVars, laterVars>>

ReportUnchangedButLedger ==
    UNCHANGED <<page, resolved, product, purchases, sales, startDate, endDate,
                tzOffset, stockMovements, movementsWithTotals>>

\* A query resolves or is refetched and the memo returns another ledger.
LedgerRecomputed ==
    /\ \E n \in 0..MaxRows : ledgerRows' = [k \in 1..n |-> k]
    /\ UNCHANGED currentPage
    /\ paginatedMovements' = PaginatedMovements(page, currentPage', ledgerRows')
    /\ ReportUnchangedButLedger
    /\ UNCHANGED OtherThanPagerVars

\* onPageChange(currentPage - 1)
PreviousPage ==
    /\ Pager.shown
    /\ ~Pager.previousDisabled
    /\ currentPage' = currentPage - 1
    /\ UNCHANGED ledgerRows
    /\ paginatedMovements' = PaginatedMovements(page, currentPage', ledgerRows')
    /\ ReportUnchangedButLedger
    /\ UNCHANGED OtherThanPagerVars

\* onPageChange(currentPage + 1)
NextPage ==
    /\ Pager.shown
    /\ ~Pager.nextDisabled
    /\ currentPage < LastPageFollowed
    /\ currentPage' = currentPage + 1
    /\ UNCHANGED ledgerRows
    /\ paginatedMovements' = PaginatedMovements(page, currentPage', ledgerRows')
    /\ ReportUnchangedButLedger
    /\ UNCHANGED OtherThanPagerVars

\* The date filter of the daily page changes: the ledger is recomputed for
\* the new window and the effect sets the page back to 1.
DateFilterChanges ==
    /\ page = "daily"
    /\ \E n \in 0..MaxRows : ledgerRows' = [k \in 1..n |-> k]
    /\ currentPage' = 1
    /\ paginatedMovements' = PaginatedMovements(page, currentPage', ledgerRows')
    /\ ReportUnchangedButLedger
    /\ UNCHANGED OtherThanPagerVars

PagerInit ==
    /\ page \in Pages
    /\ resolved = {}
    /\ product = 0
    /\ purchases = <<>>
    /\ sales = <<>>
    /\ startDate = NoDate
    /\ endDate = NoDate
    /\ tzOffset = 0
    /\ stockMovements = <<>>
    /\ movementsWithTotals = <<>>
    /\ PagerAtRest
    /\ LaterAtRest
    /\ failed = {}
    /\ DbAtRest
    /\ PreviewAtRest
    /\ InvoiceAtRest

PagerNext ==
    \/ LedgerRecomputed
    \/ PreviousPage
    \/ NextPage
    \/ DateFilterChanges

PagerSpec == PagerInit /\ [][PagerNext]_vars

\* C20: totalPages is ceil(rowCount / ITEMS_PER_PAGE); the table shows the
\* rows (p-1)*ITEMS_PER_PAGE .. min(p*ITEMS_PER_PAGE, rowCount)-1 of the
\* ledger, in ledger order, p being the current page, and so does every page
\* of 1..totalPages; the pager announces that range; every ledger row is on
\* exactly one of the pages 1..totalPages.
C20_Pagination ==
    LET n == Len(ledgerRows)
        ipp == ITEMS_PER_PAGE(page)
        totalPages == TotalPages(page, ledgerRows)
        first(p) == (p - 1) * ipp
        last(p) == Min(p * ipp, n) - 1
        expected(p) == [j \in 1..(last(p) - first(p) + 1) |-> ledgerRows[first(p) + j]]
        shownOn(p) == PaginatedMovements(page, p, ledgerRows)
    IN  /\ totalPages * ipp >= n
        /\ (totalPages - 1) * ipp < n
        /\ paginatedMovements = expected(currentPage)
        /\ \A p \in 1..totalPages : shownOn(p) = expected(p)
        /\ (Pager.shown /\ currentPage <= totalPages)
              => /\ Pager.fromItem = first(currentPage) + 1
                 /\ Pager.toItem = last(currentPage) + 1
        /\ \A k \in 1..n :
              Cardinality({pj \in (1..totalPages) \X (1..ipp) :
                              /\ pj[2] \in DOMAIN shownOn(pj[1])
                              /\ shownOn(pj[1])[pj[2]] = ledgerRows[k]}) = 1

\* The last, short page of a daily ledger of 45 rows.
C20_Witness ==
    /\ page = "daily"
    /\ Len(ledgerRows) = 45
    /\ currentPage = 3
    /\ paginatedMovements = [j \in 1..5 |-> 40 + j]
    /\ Pager.shown
    /\ Pager.nextDisabled

\* C28: page bounds. In every state of the paginated ledger,
\* 1 <= currentPage <= max(1, totalPages).
C28_PageBounds ==
    /\ 1 <= currentPage
    /\ currentPage <= (IF TotalPages(page, ledgerRows) > 1
                       THEN TotalPages(page, ledgerRows) ELSE 1)

(***************************************************************************)
(* A list page that pages on the server: the stock page and the            *)
(* transaction report.  The query key is the filter and the page; the      *)
(* table shows the data of the key when the cache holds it and keeps the   *)
(* previous data otherwise (placeholderData: keepPreviousData).  A filter  *)
(* change is rendered and committed with the page as it is; the effect     *)
(* that sets the page to 1 runs after that commit.                         *)
(***************************************************************************)
ListFilters == {"f1", "f2"}
ListCounts == {5, 25}
ListItemsPerPage == 10

ListKey == <<listFilter, currentPage>>

\* data of useQuery for a key: the cached data of the key, else the data kept
\* from the previous key.
QueryData(key, ca, sh) == IF key \in ca THEN key ELSE sh

\* totalCount and totalPages as the page computes them from the data it has.
ListTotalCount == IF shown = <<>> THEN 0 ELSE matching[shown[1]]
ListTotalPages == Ceil(ListTotalCount, ListItemsPerPage)

ListUnchanged ==
    UNCHANGED <<ledgerRows, paginatedMovements, reportVars, dbVars, fetchVars,
                previewVars, invoiceVars, afterListVars>>

\* The render that follows a state change: the observer moves to the key,
\* shows what the cache has for it and fetches it.
ListRender ==
    /\ shown' = QueryData(<<listFilter', currentPage'>>, cached, shown)
    /\ fetching' = fetching \cup {<<listFilter', currentPage'>>}
    /\ UNCHANGED <<matching, cached>>

\* setStartDate, setEndDate, setTransactionType, or the debounced search
\* term taking the typed value.
ListFilterChanges ==
    /\ ~effectPending
    /\ \E v \in ListFilters \ {listFilter} : listFilter' = v
    /\ UNCHANGED currentPage
    /\ effectPending' = TRUE
    /\ ListRender
    /\ ListUnchanged

\* useEffect(() => setCurrentPage(1), [filter]), and the render it causes.
ResetPageEffect ==
    /\ effectPending
    /\ currentPage' = 1
    /\ UNCHANGED listFilter
    /\ effectPending' = FALSE
    /\ ListRender
    /\ ListUnchanged

\* A fetch resolves: its data enters the cache, and the table when the key
\* is the one observed.
ListFetchResolves ==
    /\ ~effectPending
    /\ \E key \in fetching :
          /\ fetching' = fetching \ {key}
          /\ cached' = cached \cup {key}
          /\ shown' = IF key = ListKey THEN key ELSE shown
    /\ UNCHANGED <<matching, listFilter, currentPage, effectPending>>
    /\ ListUnchanged

\* Previous and Next of the pager.
ListPageChange ==
    /\ ~effectPending
    /\ ListTotalPages > 1
    /\ \/ currentPage # 1 /\ currentPage' = currentPage - 1
       \/ /\ currentPage # ListTotalPages
          /\ currentPage < MaxListPage
          /\ currentPage' = currentPage + 1
    /\ UNCHANGED <<listFilter, effectPending>>
    /\ ListRender
    /\ ListUnchanged

ListInit ==
    /\ matching \in [ListFilters -> ListCounts]
    /\ listFilter = "f1"
    /\ cached = {}
    /\ fetching = {<<"f1", 1>>}
    /\ shown = <<>>
    /\ effectPending = FALSE
    /\ PagerAtRest
    /\ ReportAtRest
    /\ failed = {}
    /\ DbAtRest
    /\ PreviewAtRest
    /\ InvoiceAtRest
    /\ AfterListAtRest

ListNext ==
    \/ ListFilterChanges
    \/ ResetPageEffect
    \/ ListFetchResolves
    \/ ListPageChange

ListSpec == ListInit /\ [][ListNext]_vars

\* C21: the page is reset before the next list is shown. No render shows
\* the list of a newly chosen filter while currentPage is still the page
\* number the previous filter was left on.
C21_PageResetBeforeNextList ==
    (effectPending /\ shown # <<>> /\ shown[1] = listFilter) => currentPage = 1

(***************************************************************************)
(* deleteProduct of the products page, next to the forms that record a     *)
(* purchase or an invoice item.  Each await of deleteProduct is one        *)
(* request to the database and one step here; the requests of other        *)
(* mutations may come between two of them.                                 *)
(***************************************************************************)
MaxRefs == 2

ProductIds == {"p1", "p2"}

NotDeleting == <<>>

Referenced(p) == purchaseRefs[p] > 0 \/ invoiceItemRefs[p] > 0

ProductUnchanged == UNCHANGED <<earlierVars, csvVars, toastVars>>

\* deleteProduct up to its first answer: the count of the purchases of the
\* product. A count above zero throws.
CountPurchases(productId) ==
    /\ deleting = NotDeleting
    /\ productId \in productRows
    /\ deleting' = IF purchaseRefs[productId] > 0
                   THEN NotDeleting
                   ELSE [pc |-> "countInvoiceItems", productId |-> productId]
    /\ UNCHANGED <<productRows, purchaseRefs, invoiceItemRefs>>
    /\ ProductUnchanged

\* The second answer: the count of the invoice items of the product.
CountInvoiceItems ==
    /\ deleting # NotDeleting
    /\ deleting.pc = "countInvoiceItems"
    /\ deleting' = IF invoiceItemRefs[deleting.productId] > 0
                   THEN NotDeleting
                   ELSE [deleting EXCEPT !.pc = "delete"]
    /\ UNCHANGED <<productRows, purchaseRefs, invoiceItemRefs>>
    /\ ProductUnchanged

\* supabase.from('products').delete().eq('id', productId)
DeleteProductRow ==
    /\ deleting # NotDeleting
    /\ deleting.pc = "delete"
    /\ productRows' = productRows \ {deleting.productId}
    /\ deleting' = NotDeleting
    /\ UNCHANGED <<purchaseRefs, invoiceItemRefs>>
    /\ ProductUnchanged

\* A request of deleteProduct answers with an error: deleteProduct throws.
DeleteProductThrows ==
    /\ deleting # NotDeleting
    /\ deleting' = NotDeleting
    /\ UNCHANGED <<productRows, purchaseRefs, invoiceItemRefs>>
    /\ ProductUnchanged

\* A purchase of a product the purchase form lists is recorded.
InsertPurchase(p) ==
    /\ p \in productRows
    /\ purchaseRefs[p] < MaxRefs
    /\ purchaseRefs' = [purchaseRefs EXCEPT ![p] = @ + 1]
    /\ UNCHANGED <<productRows, invoiceItemRefs, deleting>>
    /\ ProductUnchanged

\* An invoice with an item of a product the invoice form lists is saved.
InsertInvoiceItem(p) ==
    /\ p \in productRows
    /\ invoiceItemRefs[p] < MaxRefs
    /\ invoiceItemRefs' = [invoiceItemRefs EXCEPT ![p] = @ + 1]
    /\ UNCHANGED <<productRows, purchaseRefs, deleting>>
    /\ ProductUnchanged

ProductInit ==
    /\ productRows = ProductIds
    /\ purchaseRefs \in [ProductIds -> {0, 1}]
    /\ invoiceItemRefs \in [ProductIds -> {0, 1}]
    /\ deleting = NotDeleting
    /\ ReportAtRest
    /\ DbAtRest
    /\ failed = {}
    /\ PreviewAtRest
    /\ InvoiceAtRest
    /\ PagerAtRest
    /\ ListAtRest
    /\ CsvAtRest
    /\ ToastAtRest

ProductNext ==
    \/ \E productId \in ProductIds : CountPurchases(productId)
    \/ CountInvoiceItems
    \/ DeleteProductRow
    \/ DeleteProductThrows
    \/ \E p \in ProductIds : InsertPurchase(p)
    \/ \E p \in ProductIds : InsertInvoiceItem(p)

ProductSpec == ProductInit /\ [][ProductNext]_vars

\* C22: no purchase and no invoice item references a product that
\* deleteProduct has removed: every product some purchases row or some
\* invoice_items row names still has its products row.
C22_NoReferenceToDeletedProduct ==
    \A p \in ProductIds : Referenced(p) => p \in productRows

(***************************************************************************)
(* CSV export and import.  A string is a sequence of characters; the       *)
(* characters are a letter, the comma and the double quote.  The file of   *)
(* one exported row is the header line and the line of the row; parseCSV   *)
(* is followed on the line of the row, the header line being the header    *)
(* names joined by commas.                                                 *)
(***************************************************************************)
MaxField == 2

Comma == ","
Quote == "\""
Chars == {"a", Comma, Quote}

\* null, a value that is no string.
Null == <<"null">>

Headers == <<"id", "name", "sku">>

\* The strings of at most n characters.
RECURSIVE Strings(_)
Strings(n) ==
    IF n = 0 THEN {<<>>}
    ELSE Strings(n - 1) \cup
         {Append(str, c) : str \in {x \in Strings(n - 1) : Len(x) = n - 1},
                           c \in Chars}

FieldValues == Strings(MaxField) \cup {Null}

\* str.replace(/"/g, '""')
RECURSIVE DoubleQuotes(_)
DoubleQuotes(str) ==
    IF str = <<>> THEN <<>>
    ELSE (IF Head(str) = Quote THEN <<Quote, Quote>> ELSE <<Head(str)>>)
         \o DoubleQuotes(Tail(str))

\* value.replace(/""/g, '"')
RECURSIVE UndoubleQuotes(_)
UndoubleQuotes(str) ==
    IF Len(str) < 2 THEN str
    ELSE IF str[1] = Quote /\ str[2] = Quote
         THEN <<Quote>> \o UndoubleQuotes(SubSeq(str, 3, Len(str)))
         ELSE <<Head(str)>> \o UndoubleQuotes(Tail(str))

escapeCSV(value) ==
    IF value = Null THEN <<>>
    ELSE IF \E i \in 1..Len(value) : value[i] \in {Comma, Quote}
         THEN <<Quote>> \o DoubleQuotes(value) \o <<Quote>>
         ELSE value

\* fields.join(',')
RECURSIVE Join(_)
Join(fields) ==
    IF fields = <<>> THEN <<>>
    ELSE IF Len(fields) = 1 THEN fields[1]
         ELSE fields[1] \o <<Comma>> \o Join(Tail(fields))

\* The lookahead (?=\s*,|\s*$) after position j of the line.
FieldEndsAt(line, j) == j = Len(line) \/ line[j + 1] = Comma

\* Where the regular expression (".*?"|[^",]+)(?=\s*,|\s*$) matches when it
\* is tried at position i: the last position of the match, 0 for no match.
\* ".*?" takes the nearest closing quote that the lookahead accepts; [^",]+
\* takes the whole run of plain characters, and a shorter run is never
\* followed by a comma or the end.
MatchEnd(line, i) ==
    LET closing == {j \in (i + 1)..Len(line) :
                       line[j] = Quote /\ FieldEndsAt(line, j)}
        plainEnd == CHOOSE k \in i..Len(line) :
                       /\ \A j \in i..k : line[j] \notin {Comma, Quote}
                       /\ k = Len(line) \/ line[k + 1] \in {Comma, Quote}
    IN  IF line[i] = Quote
        THEN IF closing = {} THEN 0
             ELSE CHOOSE j \in closing : \A k \in closing : j <= k
        ELSE IF line[i] = Comma THEN 0
        ELSE IF FieldEndsAt(line, plainEnd) THEN plainEnd ELSE 0

\* line.match(/.../g) || []: the matches from position i on, left to right.
RECURSIVE Matches(_, _)
Matches(line, i) ==
    IF i > Len(line) THEN <<>>
    ELSE IF MatchEnd(line, i) = 0 THEN Matches(line, i + 1)
    ELSE <<SubSeq(line, i, MatchEnd(line, i))>>
         \o Matches(line, MatchEnd(line, i) + 1)

\* The value parseCSV stores for one matched text.
Unquoted(value) ==
    IF value # <<>> /\ value[1] = Quote /\ value[Len(value)] = Quote
    THEN UndoubleQuotes(SubSeq(value, 2, Len(value) - 1))
    ELSE value

\* The row parseCSV builds for a line: per header, values[i] || ''.
parseCSV(line) ==
    LET values == Matches(line, 1)
    IN  [i \in 1..Len(Headers) |->
            Unquoted(IF i <= Len(values) THEN values[i] ELSE <<>>)]

CsvUnchanged == UNCHANGED <<earlierVars, productVars, toastVars>>

\* handleExport writes the line of the row.
HandleExport ==
    /\ csvStep = "row"
    /\ csvContent' = Join([i \in 1..Len(Headers) |-> escapeCSV(exportData[i])])
    /\ csvStep' = "exported"
    /\ UNCHANGED <<exportData, parsedRows>>
    /\ CsvUnchanged

\* The exported file is read back.
ParseExported ==
    /\ csvStep = "exported"
    /\ parsedRows' = parseCSV(csvContent)
    /\ csvStep' = "parsed"
    /\ UNCHANGED <<exportData, csvContent>>
    /\ CsvUnchanged

CsvInit ==
    /\ exportData \in [1..Len(Headers) -> FieldValues]
    /\ csvContent = <<>>
    /\ parsedRows = <<>>
    /\ csvStep = "row"
    /\ ReportAtRest
    /\ DbAtRest
    /\ failed = {}
    /\ PreviewAtRest
    /\ InvoiceAtRest
    /\ PagerAtRest
    /\ ListAtRest
    /\ ProductAtRest
    /\ ToastAtRest

CsvNext ==
    \/ HandleExport
    \/ ParseExported

CsvSpec == CsvInit /\ [][CsvNext]_vars

\* The string of a field value: String(value), null being the empty string.
FieldText(value) == IF value = Null THEN <<>> ELSE value

\* C23: parseCSV inverts the export. For every exported row, parseCSV
\* returns under each header the text of the value the row has under it.
C23_ParseInvertsExport ==
    csvStep = "parsed" =>
        \A i \in 1..Len(Headers) : parsedRows[i] = FieldText(exportData[i])

\* The same for the rows without an empty field.
ParseInvertsExportOfFilledRows ==
    (csvStep = "parsed" /\ \A i \in 1..Len(Headers) : FieldText(exportData[i]) # <<>>)
        => \A i \in 1..Len(Headers) : parsedRows[i] = FieldText(exportData[i])

\* The same for the rows whose fields hold letters only.
ParseInvertsExportOfPlainRows ==
    (csvStep = "parsed"
        /\ \A i \in 1..Len(Headers) :
              /\ FieldText(exportData[i]) # <<>>
              /\ \A j \in 1..Len(exportData[i]) : exportData[i][j] = "a")
        => \A i \in 1..Len(Headers) : parsedRows[i] = FieldText(exportData[i])

(***************************************************************************)
(* The Toaster.  toast(message) calls the function the mount effect of    *)
(* the Toaster has installed: it appends the message to the toasts state   *)
(* and starts a timer whose callback filters the toasts state.  Time is    *)
(* counted in seconds; timers of the same delay fire in the order they     *)
(* were started.                                                           *)
(***************************************************************************)
MaxToasts == 3
MaxNow == 6

ToastSeconds == 3

Messages == {"Saved", "Deleted"}

ToastUnchanged == UNCHANGED <<earlierVars, productVars, csvVars>>

\* The mount effect of the Toaster assigns toastFunction.
MountToaster ==
    /\ ~mounted
    /\ mounted' = TRUE
    /\ UNCHANGED <<toasts, timers, raised, clock>>
    /\ ToastUnchanged

\* toast(message). Before the mount toastFunction does nothing.
Toast(message) ==
    /\ raised < MaxToasts
    /\ clock + ToastSeconds <= MaxNow
    /\ raised' = raised + 1
    /\ IF mounted
       THEN /\ toasts' = Append(toasts, message)
            /\ timers' = Append(timers, [message |-> message,
                                         due |-> clock + ToastSeconds])
       ELSE UNCHANGED <<toasts, timers>>
    /\ UNCHANGED <<mounted, clock>>
    /\ ToastUnchanged

\* The oldest timer is due and fires: its callback keeps the toasts whose
\* message is not the message of the timer.
TimerFires ==
    /\ timers # <<>>
    /\ Head(timers).due <= clock
    /\ toasts' = SelectSeq(toasts, LAMBDA m : m # Head(timers).message)
    /\ timers' = Tail(timers)
    /\ UNCHANGED <<mounted, raised, clock>>
    /\ ToastUnchanged

\* A second goes by; a timer that is due fires first.
Tick ==
    /\ clock < MaxNow
    /\ \A i \in 1..Len(timers) : timers[i].due > clock
    /\ clock' = clock + 1
    /\ UNCHANGED <<mounted, toasts, timers, raised>>
    /\ ToastUnchanged

ToastInit ==
    /\ ToastAtRest
    /\ ReportAtRest
    /\ DbAtRest
    /\ failed = {}
    /\ PreviewAtRest
    /\ InvoiceAtRest
    /\ PagerAtRest
    /\ ListAtRest
    /\ ProductAtRest
    /\ CsvAtRest

ToastNext ==
    \/ MountToaster
    \/ \E message \in Messages : Toast(message)
    \/ TimerFires
    \/ Tick

ToastSpec == ToastInit /\ [][ToastNext]_vars

\* Time goes on and a due timer is run.
ToastFairSpec == ToastSpec /\ WF_vars(Tick) /\ WF_vars(TimerFires)

\* C29: every toast stays displayed until its own timer fires and is removed
\* then: the displayed toasts are the messages of the toasts whose timer is
\* still pending, one toast per timer, in the order they were raised.
C29_ToastStaysUntilItsTimerFires ==
    toasts = [i \in 1..Len(timers) |-> timers[i].message]

\* No toast outlives its timer.
NoToastWithoutTimer ==
    \A i \in 1..Len(toasts) : \E j \in 1..Len(timers) : timers[j].message = toasts[i]

\* The toast list is empty in the end.
ToastsEventuallyEmpty == <>[](toasts = <<>>)

(***************************************************************************)
(* The invoice mutations with requests that fail.  Every request of        *)
(* deleteInvoice and of upsertInvoice may answer with an error instead of  *)
(* being carried out; the function then throws and the mutation is over.   *)
(***************************************************************************)
DbUnchanged ==
    UNCHANGED <<dbInitial, dbStock, dbPurchases, dbPurchaseSeq, dbInvoices, dbItems>>

\* A request of deleteInvoice answers with an error: fetchError,
\* productError, updateError, deleteItemsError or deleteError is thrown.
DeleteInvoiceThrows(c) ==
    /\ session[c].op = "deleteInvoice"
    /\ Return(c)
    /\ DbUnchanged
    /\ UNCHANGED OtherThanDbVars

\* A request of upsertInvoice answers with an error: invoiceError,
\* deleteError or itemsError is thrown.
UpsertInvoiceThrows(c) ==
    /\ session[c].op = "upsertInvoice"
    /\ Return(c)
    /\ DbUnchanged
    /\ UNCHANGED OtherThanDbVars

DbErrorNext ==
    \/ \E c \in Clients :
          \/ SubmitInvoice(c)
          \/ UpsertUpdateInvoice(c)
          \/ UpsertDeleteItems(c)
          \/ UpsertInsertInvoice(c)
          \/ UpsertInsertItems(c)
          \/ UpsertInvoiceThrows(c)
          \/ ClickDeleteInvoice(c)
          \/ DeleteFetchInvoice(c)
          \/ DeleteSelectProduct(c)
          \/ DeleteUpdateProduct(c)
          \/ DeleteItems(c)
          \/ DeleteInvoiceRow(c)
          \/ DeleteInvoiceThrows(c)

DbErrorSpec == DbSpecInit /\ [][DbErrorNext]_vars

\* The step of client c ends its mutation op with an error: the mutation is
\* over and its last request has changed nothing.
Throws(c, op) ==
    /\ session[c].op = op
    /\ session'[c] = Idle
    /\ DbUnchanged

\* C24: deleteInvoice takes its steps in a fixed order and stops at the
\* first error. Every step of a running deleteInvoice is the next one of:
\* fetch the invoice; per item, in item order, one read and then one write
\* of the product's stock_quantity; delete the items; delete the invoice
\* row. Or the step is an error, which changes nothing and ends the call.
\* The invoice row goes only after the stock of all items was written.
C24_DeleteInvoiceStepOrder ==
    [][/\ \A c \in Clients :
            session[c].op = "deleteInvoice" =>
                LET s == session[c]
                    t == session'[c]
                    n == Len(s.items)
                IN  \/ t = s
                    \/ Throws(c, "deleteInvoice")
                    \/ /\ s.pc = "fetchInvoice"
                       /\ t.items = dbItems[s.id]
                       /\ t.i = 1
                       /\ t.pc = IF t.items = <<>> THEN "deleteItems" ELSE "selectProduct"
                       /\ DbUnchanged
                    \/ /\ s.pc = "selectProduct"
                       /\ t.pc = "updateProduct"
                       /\ t.i = s.i
                       /\ t.stock_quantity = dbStock[s.items[s.i].product_id]
                       /\ DbUnchanged
                    \/ /\ s.pc = "updateProduct"
                       /\ dbStock' = [dbStock EXCEPT ![s.items[s.i].product_id] =
                                          s.stock_quantity + s.items[s.i].quantity]
                       /\ t.i = s.i + 1
                       /\ t.pc = IF s.i = n THEN "deleteItems" ELSE "selectProduct"
                       /\ UNCHANGED <<dbInvoices, dbItems>>
                    \/ /\ s.pc = "deleteItems"
                       /\ s.i = n + 1
                       /\ dbItems' = [dbItems EXCEPT ![s.id] = <<>>]
                       /\ t.pc = "deleteInvoice"
                       /\ UNCHANGED <<dbStock, dbInvoices>>
                    \/ /\ s.pc = "deleteInvoice"
                       /\ dbInvoices' = dbInvoices \ {s.id}
                       /\ t = Idle
                       /\ UNCHANGED <<dbStock, dbItems>>
       /\ \A id \in dbInvoices \ dbInvoices' :
            \E c \in Clients :
                /\ At(c, "deleteInvoice", "deleteInvoice")
                /\ session[c].id = id
                /\ session[c].i = Len(session[c].items) + 1
                /\ dbItems[id] = <<>>]_vars

\* An invoice of two items whose stock has been written back for both and
\* whose items are deleted; the invoice row is next.
C24_Witness ==
    \E c \in Clients :
        /\ At(c, "deleteInvoice", "deleteInvoice")
        /\ Len(session[c].items) = 2
        /\ session[c].i = 3
        /\ session[c].id \in dbInvoices
        /\ dbItems[session[c].id] = <<>>

\* C25: deleteInvoice is all or nothing. When it throws, no product's
\* stock_quantity has been moved by the call and the invoice and its items
\* are there as they were; when it has deleted the invoice row, the items
\* are gone and every product's stock_quantity has risen by the quantities
\* of the deleted items that name it.
C25_DeleteInvoiceAllOrNothing ==
    [][\A c \in Clients :
          /\ Throws(c, "deleteInvoice") =>
                /\ \A p \in Products : session[c].restored[p] = 0
                /\ session[c].id \in dbInvoices'
                /\ dbItems'[session[c].id] = session[c].before
          /\ (At(c, "deleteInvoice", "deleteInvoice") /\ session'[c] = Idle
                 /\ session[c].id \notin dbInvoices') =>
                /\ dbItems'[session[c].id] = <<>>
                /\ \A p \in Products :
                      session[c].restored[p] = ItemsQuantity(session[c].before, p)]_vars

\* C27: upsertInvoice replaces the items of an invoice atomically. When the
\* update of an invoice throws, the stored items of the invoice are those
\* it had before the call; when it returns, they are the submitted items.
C27_UpsertReplacesItemsAtomically ==
    [][\A c \in Clients :
          (session[c].op = "upsertInvoice" /\ session[c].id \in dbInvoices
              /\ session'[c] = Idle) =>
                IF DbUnchanged
                THEN dbItems'[session[c].id] = session[c].before
                ELSE dbItems'[session[c].id] = session[c].items]_vars

(***************************************************************************)
(* deleteInvoice next to a purchase form in another browser: two sessions  *)
(* on a database that holds one invoice.  Session 1 deletes the invoice,   *)
(* session 2 records purchases; the requests of the two interleave.        *)
(***************************************************************************)
RaceClients == {1, 2}

RaceInit ==
    /\ dbInitial \in [Products -> 0..MaxStock]
    /\ \E id \in InvoiceIds : \E items \in FormItems :
          /\ dbInvoices = {id}
          /\ dbItems = [i \in InvoiceIds |-> IF i = id THEN items ELSE <<>>]
          /\ dbStock = update_stock_on_sale(dbInitial, items)
    /\ dbStock \in [Products -> StockLevels]
    /\ dbPurchases = <<>>
    /\ dbPurchaseSeq = 0
    /\ session = [c \in RaceClients |-> Idle]
    /\ ReportAtRest
    /\ failed = {}
    /\ PreviewAtRest
    /\ InvoiceAtRest
    /\ PagerAtRest
    /\ LaterAtRest

RaceNext ==
    \/ ClickDeleteInvoice(1)
    \/ DeleteFetchInvoice(1)
    \/ DeleteSelectProduct(1)
    \/ DeleteUpdateProduct(1)
    \/ DeleteItems(1)
    \/ DeleteInvoiceRow(1)
    \/ CreatePurchase(2)

RaceSpec == RaceInit /\ [][RaceNext]_vars

\* C26: no stock update is lost. Once deleteInvoice and the purchases that
\* ran next to it are over, each product's stock_quantity is the value it
\* had before them plus every single change: the starting quantity, plus the
\* quantities of the purchases, minus the quantities of the items of the
\* invoices that are left.
C26_NoLostStockUpdate ==
    (\A c \in RaceClients : IsIdle(c)) =>
        \A p \in Products :
            dbStock[p] = dbInitial[p] + PurchasedQuantity(p) - SoldQuantity(p)

====
